---------------------------- MODULE Spec2Model ----------------------------
(***************************************************************************)
(* plainfields: the lexical scanner (lex.go) and the streaming grammar     *)
(* parser (parser.go, the current version, lines 1-422).                   *)
(*                                                                         *)
(* Texts are sequences of runes, a rune is a one-character string.  The    *)
(* scanner is the state-function machine of lex.go, one definition per     *)
(* state function; the parser is the recursive descent of parser.go, one   *)
(* definition per function body, with the position in parseFieldList's     *)
(* call tree kept in pc.                                                   *)
(*                                                                         *)
(* The values and their conversion functions (IsZero, ToString, ToFloat,   *)
(* ToInt, ToUint, ToBool) and the builder's NeedsQuoting are operators;    *)
(* call holds the one function call of the specifications that apply them. *)
(*                                                                         *)
(* The Builder of builder.go is the record builder; each of its chained    *)
(* methods is an operator from builders to builders and an action of       *)
(* SpecBuilder.  SpecLive runs the scanner and then the parser to the end  *)
(* under weak fairness; SpecHalt runs both against a consumer that stops.  *)
(***************************************************************************)
EXTENDS Integers, Sequences, FiniteSets, TLC

VARIABLES input, l, p, call, builder

vars == <<input, l, p, call, builder>>

(***************************************************************************)
(* Bounds of the model.                                                    *)
(***************************************************************************)
\* Longest exhaustively enumerated tail of a scanner input (SpecLex).
MaxLexTail == 2
\* Longest exhaustively enumerated tail of a parser input (Spec).
MaxTail == 2
\* The latest event on which a stopping consumer stops (SpecStop).
MaxStop == 2
\* Longest exhaustively enumerated tail of a value's text (SpecValue).
MaxValueTail == 2
\* Longest exhaustively enumerated tail of a text to quote (SpecQuote).
MaxQuoteTail == 2
\* The most calls made on one builder (SpecBuilder).
MaxCalls == 3
\* Longest exhaustively enumerated tail of a text scanned and parsed to the
\* end (SpecLive).
MaxLiveTail == 1
\* The latest token, and the latest event, on which the consumer stops
\* (SpecHalt).
MaxHalt == 8

\* Op(v), with v evaluated once and then bound: TLC evaluates the definition
\* of a LET or an argument again at each use when it records coverage.
Once(v, Op(_)) == CHOOSE r \in {Op(x) : x \in {v}} : TRUE

(***************************************************************************)
(* Runes and character classes.                                            *)
(***************************************************************************)
\* const eof = -1
eof == "<eof>"

\* A letter outside ASCII: two bytes in UTF-8, one code point.
WideRunes == {"é"}

LowerHexLetters == {"a", "b", "c", "d", "e", "f"}
UpperHexLetters == {"A", "B", "C", "D", "E", "F"}
OtherLetters == {"g", "i", "l", "n", "o", "p", "r", "s", "t", "u", "x",
                 "O", "P", "X", "é"}

\* utf8.DecodeRuneInString's width of a rune.
Width(ch) == IF ch \in WideRunes THEN 2 ELSE 1

isSpace(ch) == ch \in {" ", "\t", "\n", "\r"}

isLetter(ch) == ch \in LowerHexLetters \cup UpperHexLetters \cup OtherLetters

isDigit(ch) == ch \in {"0", "1", "2", "3", "4", "5", "6", "7", "8", "9"}

isHexDigit(ch) == isDigit(ch) \/ ch \in LowerHexLetters \/ ch \in UpperHexLetters

isOctalDigit(ch) == ch \in {"0", "1", "2", "3", "4", "5", "6", "7"}

isBinaryDigit(ch) == ch = "0" \/ ch = "1"

isStringStart(ch) == ch = "\"" \/ ch = "'"

isNumericSign(ch) == ch = "+" \/ ch = "-"

isIdentifierContinue(ch) == isLetter(ch) \/ isDigit(ch) \/ ch = "-" \/ ch = "_"

(***************************************************************************)
(* Strings as byte-addressed rune sequences.                               *)
(***************************************************************************)
RECURSIVE ByteLen(_)
\* len(s) of a Go string: its length in bytes.
ByteLen(s) == IF s = <<>> THEN 0 ELSE Width(Head(s)) + ByteLen(Tail(s))

RECURSIVE RuneIndexFrom(_, _, _)
\* Index of the rune that starts off bytes after the start of rune i
\* (0 when no rune starts there).
RuneIndexFrom(s, i, off) ==
    IF i > Len(s) \/ off < 0 THEN 0
    ELSE IF off = 0 THEN i
    ELSE RuneIndexFrom(s, i + 1, off - Width(s[i]))

\* Index of the rune that starts at byte offset off (0 when there is none).
RuneIndexAt(s, off) == RuneIndexFrom(s, 1, off)

\* s[from:to], both byte offsets on rune boundaries, from < to <= len(s).
Slice(s, from, to) ==
    LET first == RuneIndexAt(s, from)
        after == IF to >= ByteLen(s) THEN Len(s) + 1 ELSE RuneIndexAt(s, to)
    IN  SubSeq(s, first, after - 1)

(***************************************************************************)
(* Positions and tokens.                                                   *)
(***************************************************************************)
Position(off, col) == [Offset |-> off, Column |-> col]

TokenError == "Error"
TokenEOF == "EOF"
TokenBooleanPrefix == "BooleanPrefix"
TokenIdentifier == "Identifier"
TokenAssign == "Assign"
TokenNumber == "Number"
TokenString == "String"
TokenTrue == "True"
TokenFalse == "False"
TokenNil == "Nil"
TokenFieldSeparator == "FieldSeparator"
TokenListSeparator == "ListSeparator"
TokenPairSeparator == "PairSeparator"

\* Token{Typ, Pos, Val}; Val is a rune sequence, or the pieces of a message.
Token(typ, pos, val) == [Typ |-> typ, Pos |-> pos, Val |-> val]

(***************************************************************************)
(* The scanner: type lexer and its methods.                                *)
(* yielded is every token handed to the yield callback; stopAfter = n > 0  *)
(* is a consumer whose yield returns false on the n-th token, stopAfter = 0*)
(* one that never does; reads counts the calls of next, seen is the        *)
(* furthest offset a call of next has decoded up to; returned is set once  *)
(* runPattern has returned.                                                *)
(***************************************************************************)
\* Lex: the lexer literal, before runPattern.
Lex(in, stopAfter) ==
    [input |-> in, state |-> "lexTop", quote |-> eof,
     start |-> Position(0, 1), pos |-> Position(0, 1), prev |-> Position(0, 1),
     done |-> FALSE, yielded |-> <<>>, stopAfter |-> stopAfter, reads |-> 0,
     seen |-> 0,
     returned |-> FALSE]

\* The yield callback's answer to the next token.
yield(lx) == Len(lx.yielded) + 1 # lx.stopAfter

\* next: the rune read and the lexer after it.
next(lx0) == Once(lx0, LAMBDA lx :
    LET saved == [lx EXCEPT !.prev = lx.pos, !.reads = @ + 1]
    IN  IF lx.pos.Offset >= ByteLen(lx.input)
        THEN [r |-> eof, lx |-> saved]
        ELSE LET r == lx.input[RuneIndexAt(lx.input, lx.pos.Offset)]
             IN  [r |-> r,
                  lx |-> [saved EXCEPT !.pos = Position(lx.pos.Offset + Width(r),
                                                        lx.pos.Column + 1),
                                       !.seen = IF lx.pos.Offset + Width(r) > @
                                                THEN lx.pos.Offset + Width(r)
                                                ELSE @]])

undo(lx) == [lx EXCEPT !.pos = lx.prev]

\* peek: next then undo.
peek(lx) == LET n == next(lx) IN [r |-> n.r, lx |-> undo(n.lx)]

text(lx) ==
    IF lx.start.Offset = lx.pos.Offset THEN <<>>
    ELSE Slice(lx.input, lx.start.Offset, lx.pos.Offset)

\* A faulty emit: the span start is not moved to the end of the token.
emitKeepingStart(lx, typ) ==
    [lx EXCEPT !.yielded = IF ~lx.done
                           THEN Append(@, Token(typ, lx.start, text(lx)))
                           ELSE @,
               !.done = lx.done \/ ~yield(lx)]

emit(lx0, typ) == Once(lx0, LAMBDA lx :
    LET called == ~lx.done
        ok == yield(lx)
    IN  [lx EXCEPT !.yielded = IF called
                               THEN Append(@, Token(typ, lx.start, text(lx)))
                               ELSE @,
                   !.done = lx.done \/ ~ok,
                   !.start = lx.pos])

ignore(lx) == [lx EXCEPT !.start = lx.pos]

\* A faulty errorf: the Error token is yielded, but the scan goes on from
\* the top state instead of stopping.
errorfResuming(lx, msg) ==
    [lx EXCEPT !.yielded = Append(@, Token(TokenError, lx.start, msg)),
               !.state = "lexTop"]

\* errorf: yield is called whatever done is; the next state is nil.
\* A faulty errorf: the Error token is positioned where the problem was found.
errorfAtPos(lx, msg) ==
    [lx EXCEPT !.yielded = Append(@, Token(TokenError, lx.pos, msg)),
               !.done = TRUE,
               !.state = "nil"]

errorf(lx, msg) ==
    [lx EXCEPT !.yielded = Append(@, Token(TokenError, lx.start, msg)),
               !.done = TRUE,
               !.state = "nil"]

goto(lx, st) == [lx EXCEPT !.state = st]

(***************************************************************************)
(* The scanner's state functions.                                          *)
(***************************************************************************)
lexTop(lx) ==
    LET pk == peek(lx)
        ch == pk.r
        l0 == pk.lx
        l1 == next(l0).lx
    IN  CASE ch = eof -> goto(emit(ignore(l0), TokenEOF), "nil")
          [] isSpace(ch) -> goto(ignore(l1), "lexTop")
          [] ch = "^" \/ ch = "!" -> goto(emit(l1, TokenBooleanPrefix), "lexTop")
          [] ch = "=" -> goto(emit(l1, TokenAssign), "lexTop")
          [] ch = "," -> goto(emit(l1, TokenFieldSeparator), "lexTop")
          [] ch = ";" -> goto(emit(l1, TokenListSeparator), "lexTop")
          [] ch = ":" -> goto(emit(l1, TokenPairSeparator), "lexTop")
          [] isStringStart(ch) -> goto(l0, "lexString")
          [] isNumericSign(ch) \/ isDigit(ch) -> goto(l0, "lexNumber")
          [] isLetter(ch) -> goto(l1, "lexIdentifierOrKeywordContinue")
          [] OTHER -> errorf(l0, <<"unexpected character: ", ch>>)

\* A faulty lexIdentifierOrKeywordContinue: a run that starts with a keyword
\* is scanned as that keyword's kind.
lexKeywordByPrefix(lx) ==
    LET pk == peek(lx)
        l0 == pk.lx
        tx == text(l0)
    IN  IF isIdentifierContinue(pk.r)
        THEN goto(next(l0).lx, "lexIdentifierOrKeywordContinue")
        ELSE CASE Len(tx) >= 4 /\ SubSeq(tx, 1, 4) = <<"t", "r", "u", "e">> ->
                      goto(emit(l0, TokenTrue), "lexTop")
               [] Len(tx) >= 5 /\ SubSeq(tx, 1, 5) = <<"f", "a", "l", "s", "e">> ->
                      goto(emit(l0, TokenFalse), "lexTop")
               [] Len(tx) >= 3 /\ SubSeq(tx, 1, 3) = <<"n", "i", "l">> ->
                      goto(emit(l0, TokenNil), "lexTop")
               [] OTHER -> goto(emit(l0, TokenIdentifier), "lexTop")

lexIdentifierOrKeywordContinue(lx) ==
    LET pk == peek(lx)
        l0 == pk.lx
    IN  IF isIdentifierContinue(pk.r)
        THEN goto(next(l0).lx, "lexIdentifierOrKeywordContinue")
        ELSE CASE text(l0) = <<"t", "r", "u", "e">> ->
                      goto(emit(l0, TokenTrue), "lexTop")
               [] text(l0) = <<"f", "a", "l", "s", "e">> ->
                      goto(emit(l0, TokenFalse), "lexTop")
               [] text(l0) = <<"n", "i", "l">> ->
                      goto(emit(l0, TokenNil), "lexTop")
               [] OTHER -> goto(emit(l0, TokenIdentifier), "lexTop")

\* lexString: the closure fn is lexStringContent with the opening quote.
lexString(lx) ==
    LET n == next(lx)
    IN  [n.lx EXCEPT !.quote = n.r, !.state = "lexStringContent"]

lexStringEscape(lx) ==
    LET n == next(lx)
    IN  IF n.r = eof THEN errorf(n.lx, <<"unterminated escape sequence">>)
        ELSE goto(n.lx, "lexStringContent")

\* A faulty lexStringContent: either quote character closes the string.
lexStringContentAnyQuote(lx) ==
    LET n == next(lx)
        ch == n.r
    IN  CASE ch = eof -> errorf(n.lx, <<"unterminated string">>)
          [] isStringStart(ch) -> goto(emit(n.lx, TokenString), "lexTop")
          [] ch = "\\" -> lexStringEscape(n.lx)
          [] OTHER -> goto(n.lx, "lexStringContent")

lexStringContent(lx) ==
    LET n == next(lx)
        ch == n.r
    IN  CASE ch = eof -> errorf(n.lx, <<"unterminated string">>)
          [] ch = lx.quote -> goto(emit(n.lx, TokenString), "lexTop")
          [] ch = "\\" -> lexStringEscape(n.lx)
          [] OTHER -> goto(n.lx, "lexStringContent")

lexNumber(lx) ==
    LET p1 == peek(lx)
        l1 == IF isNumericSign(p1.r) THEN next(p1.lx).lx ELSE p1.lx
        p2 == peek(l1)
        l2 == next(p2.lx).lx
        p3 == peek(l2)
        ch == p3.r
        l3 == p3.lx
    IN  IF p2.r = "0"
        THEN CASE ch = "x" \/ ch = "X" -> goto(next(l3).lx, "lexHexDigits")
               [] ch = "o" \/ ch = "O" -> goto(next(l3).lx, "lexOctalDigits")
               [] ch = "b" \/ ch = "B" -> goto(next(l3).lx, "lexBinaryDigits")
               [] isDigit(ch) \/ ch = "_" -> goto(l3, "lexDecimalDigits")
               [] ch = "." -> goto(l3, "lexDecimalFraction")
               [] OTHER -> goto(emit(l3, TokenNumber), "lexTop")
        ELSE goto(p2.lx, "lexDecimalDigits")

lexDecimalDigits(lx) ==
    LET pk == peek(lx)
        ch == pk.r
        l0 == pk.lx
    IN  CASE isDigit(ch) \/ ch = "_" -> goto(next(l0).lx, "lexDecimalDigits")
          [] ch = "." -> goto(l0, "lexDecimalFraction")
          [] ch = "e" \/ ch = "E" -> goto(l0, "lexExponent")
          [] OTHER -> goto(emit(l0, TokenNumber), "lexTop")

lexDecimalFraction(lx) == goto(next(lx).lx, "lexDecimalFractionDigits")

lexDecimalFractionDigits(lx) ==
    LET pk == peek(lx)
        ch == pk.r
        l0 == pk.lx
    IN  CASE isDigit(ch) \/ ch = "_" ->
                 goto(next(l0).lx, "lexDecimalFractionDigits")
          [] ch = "e" \/ ch = "E" -> goto(l0, "lexExponent")
          [] OTHER -> goto(emit(l0, TokenNumber), "lexTop")

\* The shared body of lexExponent and lexHexExponent.
exponentBody(lx, msg, digits) ==
    LET l1 == next(lx).lx
        p1 == peek(l1)
        l2 == IF isNumericSign(p1.r) THEN next(p1.lx).lx ELSE p1.lx
        p2 == peek(l2)
    IN  IF ~isDigit(p2.r) THEN errorf(p2.lx, msg) ELSE goto(p2.lx, digits)

lexExponent(lx) ==
    exponentBody(lx, <<"expected digit after exponent">>, "lexExponentDigits")

lexExponentDigits(lx) ==
    LET pk == peek(lx)
        ch == pk.r
        l0 == pk.lx
    IN  IF isDigit(ch) \/ ch = "_" THEN goto(next(l0).lx, "lexExponentDigits")
        ELSE goto(emit(l0, TokenNumber), "lexTop")

lexHexDigits(lx) ==
    LET pk == peek(lx)
    IN  IF ~isHexDigit(pk.r) THEN errorf(pk.lx, <<"expected hex digit">>)
        ELSE goto(pk.lx, "lexHexDigitsContinue")

lexHexDigitsContinue(lx) ==
    LET pk == peek(lx)
        ch == pk.r
        l0 == pk.lx
    IN  CASE isHexDigit(ch) \/ ch = "_" -> goto(next(l0).lx, "lexHexDigitsContinue")
          [] ch = "." -> goto(l0, "lexHexFraction")
          [] ch = "p" \/ ch = "P" -> goto(l0, "lexHexExponent")
          [] OTHER -> goto(emit(l0, TokenNumber), "lexTop")

lexHexFraction(lx) == goto(next(lx).lx, "lexHexFractionDigits")

lexHexFractionDigits(lx) ==
    LET pk == peek(lx)
        ch == pk.r
        l0 == pk.lx
    IN  CASE isHexDigit(ch) \/ ch = "_" -> goto(next(l0).lx, "lexHexFractionDigits")
          [] ch = "p" \/ ch = "P" -> goto(l0, "lexHexExponent")
          [] OTHER -> goto(emit(l0, TokenNumber), "lexTop")

lexHexExponent(lx) ==
    exponentBody(lx, <<"expected digit after hex exponent">>, "lexHexExponentDigits")

lexHexExponentDigits(lx) ==
    LET pk == peek(lx)
        ch == pk.r
        l0 == pk.lx
    IN  IF isDigit(ch) \/ ch = "_" THEN goto(next(l0).lx, "lexHexExponentDigits")
        ELSE goto(emit(l0, TokenNumber), "lexTop")

lexOctalDigits(lx) ==
    LET pk == peek(lx)
    IN  IF ~isOctalDigit(pk.r) THEN errorf(pk.lx, <<"expected octal digit">>)
        ELSE goto(pk.lx, "lexOctalDigitsContinue")

lexOctalDigitsContinue(lx) ==
    LET pk == peek(lx)
        ch == pk.r
        l0 == pk.lx
    IN  IF isOctalDigit(ch) \/ ch = "_" THEN goto(next(l0).lx, "lexOctalDigitsContinue")
        ELSE goto(emit(l0, TokenNumber), "lexTop")

lexBinaryDigits(lx) ==
    LET pk == peek(lx)
    IN  IF ~isBinaryDigit(pk.r) THEN errorf(pk.lx, <<"expected binary digit">>)
        ELSE goto(pk.lx, "lexBinaryDigitsContinue")

lexBinaryDigitsContinue(lx) ==
    LET pk == peek(lx)
        ch == pk.r
        l0 == pk.lx
    IN  IF isBinaryDigit(ch) \/ ch = "_" THEN goto(next(l0).lx, "lexBinaryDigitsContinue")
        ELSE goto(emit(l0, TokenNumber), "lexTop")

\* state(l): the call of the current state function.
stateFn(lx) ==
    CASE lx.state = "lexTop" -> lexTop(lx)
      [] lx.state = "lexIdentifierOrKeywordContinue" -> lexIdentifierOrKeywordContinue(lx)
      [] lx.state = "lexString" -> lexString(lx)
      [] lx.state = "lexStringContent" -> lexStringContent(lx)
      [] lx.state = "lexNumber" -> lexNumber(lx)
      [] lx.state = "lexDecimalDigits" -> lexDecimalDigits(lx)
      [] lx.state = "lexDecimalFraction" -> lexDecimalFraction(lx)
      [] lx.state = "lexDecimalFractionDigits" -> lexDecimalFractionDigits(lx)
      [] lx.state = "lexExponent" -> lexExponent(lx)
      [] lx.state = "lexExponentDigits" -> lexExponentDigits(lx)
      [] lx.state = "lexHexDigits" -> lexHexDigits(lx)
      [] lx.state = "lexHexDigitsContinue" -> lexHexDigitsContinue(lx)
      [] lx.state = "lexHexFraction" -> lexHexFraction(lx)
      [] lx.state = "lexHexFractionDigits" -> lexHexFractionDigits(lx)
      [] lx.state = "lexHexExponent" -> lexHexExponent(lx)
      [] lx.state = "lexHexExponentDigits" -> lexHexExponentDigits(lx)
      [] lx.state = "lexOctalDigits" -> lexOctalDigits(lx)
      [] lx.state = "lexOctalDigitsContinue" -> lexOctalDigitsContinue(lx)
      [] lx.state = "lexBinaryDigits" -> lexBinaryDigits(lx)
      [] lx.state = "lexBinaryDigitsContinue" -> lexBinaryDigitsContinue(lx)

\* runPattern's loop goes round once more: the state is not nil, done is not set.
running(lx) == lx.state # "nil" /\ ~lx.done

RECURSIVE runPattern(_)
\* runPattern from the lexer's current state to its return.
runPattern(lx0) == Once(lx0, LAMBDA lx :
    IF running(lx) THEN runPattern(stateFn(lx)) ELSE [lx EXCEPT !.returned = TRUE])

(***************************************************************************)
(* Values and parser events.                                               *)
(***************************************************************************)
Value(type, raw) == [Type |-> type, raw |-> raw]

ZeroValue == Value("Zero", <<>>)
NilValue == Value("Nil", <<>>)
BooleanValue(raw) == Value("Boolean", raw)
NoValue == Value("none", <<>>)

\* strconv.FormatBool
FormatBool(b) == IF b THEN <<"t", "r", "u", "e">> ELSE <<"f", "a", "l", "s", "e">>

valueFromToken(token) ==
    CASE token.Typ = TokenString -> Value("String", token.Val)
      [] token.Typ = TokenNumber -> Value("Number", token.Val)
      [] token.Typ = TokenIdentifier -> Value("Identifier", token.Val)
      [] token.Typ \in {TokenFalse, TokenTrue} -> BooleanValue(token.Val)
      [] token.Typ = TokenNil -> NilValue
      [] OTHER -> NoValue

(***************************************************************************)
(* Conversions of values.  A conversion's result is [ok, val, err]; the    *)
(* integers of the bounded literals stay far below 64 bits, so the range   *)
(* checks of ParseUint and ParseInt never fire and are left out.           *)
(***************************************************************************)
Ok(val) == [ok |-> TRUE, val |-> val, err |-> "none"]

Err(err) == [ok |-> FALSE, val |-> 0, err |-> err]

\* fmt.Errorf("value of type %s is not ...-convertible", v.Type())
NotConvertible == Err("not convertible")

\* strconv's digit value of a byte; 99 for a byte that is no digit or letter.
DigitValue(ch) ==
    CASE ch = "0" -> 0 [] ch = "1" -> 1 [] ch = "2" -> 2 [] ch = "3" -> 3
      [] ch = "4" -> 4 [] ch = "5" -> 5 [] ch = "6" -> 6 [] ch = "7" -> 7
      [] ch = "8" -> 8 [] ch = "9" -> 9
      [] ch \in {"a", "A"} -> 10 [] ch \in {"b", "B"} -> 11
      [] ch \in {"c", "C"} -> 12 [] ch \in {"d", "D"} -> 13
      [] ch \in {"e", "E"} -> 14 [] ch \in {"f", "F"} -> 15
      [] OTHER -> 99

RECURSIVE UintLoop(_, _, _, _, _)
\* ParseUint's digit loop from index i on, n so far; -1 for a syntax error.
UintLoop(s, i, base, base0, n) ==
    IF i > Len(s) THEN n
    ELSE IF s[i] = "_" /\ base0 THEN UintLoop(s, i + 1, base, base0, n)
    ELSE IF DigitValue(s[i]) >= base THEN -1
    ELSE UintLoop(s, i + 1, base, base0, n * base + DigitValue(s[i]))

RECURSIVE UnderscoreLoop(_, _, _, _)
\* strconv.underscoreOK's loop: saw is "0" after a digit, "_" after an
\* underscore, "!" after anything else, "^" at the beginning.
UnderscoreLoop(s, i, hex, saw) ==
    IF i > Len(s) THEN saw # "_"
    ELSE IF DigitValue(s[i]) < 10 \/ (hex /\ DigitValue(s[i]) < 16)
    THEN UnderscoreLoop(s, i + 1, hex, "0")
    ELSE IF s[i] = "_"
    THEN saw = "0" /\ UnderscoreLoop(s, i + 1, hex, "_")
    ELSE saw # "_" /\ UnderscoreLoop(s, i + 1, hex, "!")

\* strconv.underscoreOK: underscores only between digits or after a prefix.
underscoreOK(s0) ==
    LET s == IF s0 # <<>> /\ s0[1] \in {"+", "-"} THEN Tail(s0) ELSE s0
        pre == Len(s) >= 2 /\ s[1] = "0" /\ s[2] \in {"b", "B", "o", "O", "x", "X"}
    IN  IF pre THEN UnderscoreLoop(s, 3, s[2] \in {"x", "X"}, "0")
        ELSE UnderscoreLoop(s, 1, FALSE, "^")

\* strconv.ParseUint(s, base, 64) with base 2, 8 or 16.
ParseUintBase(s, base) ==
    IF s = <<>> \/ UintLoop(s, 1, base, FALSE, 0) = -1 THEN Err("syntax")
    ELSE Ok(UintLoop(s, 1, base, FALSE, 0))

\* strconv.ParseUint(s, 0, 64): the base is read off the prefix, a leading 0
\* alone means octal, and underscores are allowed where underscoreOK says.
ParseUint(s) ==
    IF s = <<>> THEN Err("syntax")
    ELSE LET pre == Len(s) >= 3 /\ s[1] = "0"
                        /\ s[2] \in {"b", "B", "o", "O", "x", "X"}
             base == IF s[1] # "0" THEN 10
                     ELSE IF pre /\ s[2] \in {"b", "B"} THEN 2
                     ELSE IF pre /\ s[2] \in {"x", "X"} THEN 16
                     ELSE 8
             body == IF s[1] # "0" THEN s
                     ELSE IF pre THEN SubSeq(s, 3, Len(s))
                     ELSE Tail(s)
             n == UintLoop(body, 1, base, TRUE, 0)
         IN  IF n = -1 THEN Err("syntax")
             ELSE IF (\E i \in 1..Len(body) : body[i] = "_") /\ ~underscoreOK(s)
             THEN Err("syntax")
             ELSE Ok(n)

\* strconv.ParseInt(s, 0, 64)
ParseInt(s) ==
    IF s = <<>> THEN Err("syntax")
    ELSE LET neg == s[1] = "-"
             un == ParseUint(IF s[1] \in {"+", "-"} THEN Tail(s) ELSE s)
         IN  IF ~un.ok THEN un
             ELSE Ok(IF neg THEN 0 - un.val ELSE un.val)

\* A float64 as sign, mantissa and exponents: m * 10^e10 * 2^e2.  The
\* bounded literals have mantissas below 2^53, which float64 holds exactly.
Float(neg, m, e10, e2) == [neg |-> neg, m |-> m, e10 |-> e10, e2 |-> e2]

RECURSIVE NumDigits(_, _)
\* The number of digits of n >= 0 in the given base (0 for n = 0).
NumDigits(n, base) == IF n = 0 THEN 0 ELSE 1 + NumDigits(n \div base, base)

\* A decimal exponent digit string as a number.
DecimalOf(s) == UintLoop(s, 1, 10, FALSE, 0)

\* The index after the digits of the given base from index i of s on.
AfterDigits(s, i, base) ==
    CHOOSE j \in i..(Len(s) + 1) :
        /\ \A k \in i..(j - 1) : DigitValue(s[k]) < base
        /\ j <= Len(s) => DigitValue(s[j]) >= base

\* strconv.ParseFloat(s, 64) for the literals without underscores: sign,
\* decimal or 0x mantissa with an optional point, exponent (e, or p which a
\* hex mantissa requires), nothing after it.  A magnitude beyond float64 is
\* a range error, one below it is 0.
ParseFloat(s0) ==
    LET neg == s0 # <<>> /\ s0[1] = "-"
        s == IF s0 # <<>> /\ s0[1] \in {"+", "-"} THEN Tail(s0) ELSE s0
        hex == Len(s) > 2 /\ s[1] = "0" /\ s[2] \in {"x", "X"}
        base == IF hex THEN 16 ELSE 10
        a == IF hex THEN 3 ELSE 1
        b == AfterDigits(s, a, base)
        dot == b <= Len(s) /\ s[b] = "."
        c == IF dot THEN AfterDigits(s, b + 1, base) ELSE b
        int == SubSeq(s, a, b - 1)
        frac == IF dot THEN SubSeq(s, b + 1, c - 1) ELSE <<>>
        exp == c <= Len(s) /\ s[c] \in (IF hex THEN {"p", "P"} ELSE {"e", "E"})
        eneg == c + 1 <= Len(s) /\ s[c + 1] = "-"
        d == IF c + 1 <= Len(s) /\ s[c + 1] \in {"+", "-"} THEN c + 2 ELSE c + 1
        z == AfterDigits(s, d, 10)
        e == IF exp /\ z > d
             THEN (IF eneg THEN 0 - DecimalOf(SubSeq(s, d, z - 1))
                   ELSE DecimalOf(SubSeq(s, d, z - 1)))
             ELSE 0
        m == UintLoop(int \o frac, 1, base, FALSE, 0)
        e10 == IF hex THEN 0 ELSE e - Len(frac)
        e2 == IF hex THEN e - 4 * Len(frac) ELSE 0
        mag == IF hex THEN NumDigits(m, 2) + e2 ELSE NumDigits(m, 10) + e10
    IN  IF int \o frac = <<>> THEN Err("syntax")
        ELSE IF exp /\ z = d THEN Err("syntax")
        ELSE IF hex /\ ~exp THEN Err("syntax")
        ELSE IF (IF exp THEN z ELSE c) # Len(s) + 1 THEN Err("syntax")
        ELSE IF m # 0 /\ mag > (IF hex THEN 1024 ELSE 309) THEN Err("range")
        ELSE IF m = 0 \/ mag < (IF hex THEN 0 - 1074 ELSE 0 - 323)
        THEN Ok(Float(neg, 0, 0, 0))
        ELSE Ok(Float(neg, m, e10, e2))

\* float64(v) of an unsigned conversion's result.
FloatOfUint(r) == IF r.ok THEN Ok(Float(FALSE, r.val, 0, 0)) ELSE r

\* strings.ReplaceAll(s, "_", "")
WithoutUnderscores(s) == SelectSeq(s, LAMBDA ch : ch # "_")

\* parseHexFloat: the integer and fraction digits of 0x<int>.<frac>.
parseHexFloat(s) ==
    LET mantissaStr == SubSeq(s, 3, Len(s))
        dotIdx == CHOOSE i \in 1..Len(mantissaStr) :
                      /\ mantissaStr[i] = "."
                      /\ \A j \in 1..(i - 1) : mantissaStr[j] # "."
        intPart == SubSeq(mantissaStr, 1, dotIdx - 1)
        fracPart == SubSeq(mantissaStr, dotIdx + 1, Len(mantissaStr))
        iv == IF intPart # <<>> THEN ParseUintBase(intPart, 16) ELSE Ok(0)
        fv == IF fracPart # <<>> THEN ParseUintBase(fracPart, 16) ELSE Ok(0)
    IN  IF ~iv.ok THEN iv
        ELSE IF ~fv.ok THEN fv
        ELSE Ok(Float(FALSE, iv.val * (2 ^ (4 * Len(fracPart))) + fv.val,
                      0, 0 - 4 * Len(fracPart)))

\* NumberValue.ToFloat
NumberToFloat(raw) ==
    LET s == WithoutUnderscores(raw)
        has(S) == \E i \in 1..Len(s) : s[i] \in S
    IN  IF Len(s) > 2 /\ s[1] = "0" /\ s[2] \in {"x", "X"}
        THEN IF has({"p", "P"}) THEN ParseFloat(s)
             ELSE IF has({"."}) THEN parseHexFloat(s)
             ELSE FloatOfUint(ParseUintBase(SubSeq(s, 3, Len(s)), 16))
        ELSE IF Len(s) > 2 /\ s[1] = "0" /\ s[2] \in {"o", "O"}
        THEN FloatOfUint(ParseUintBase(SubSeq(s, 3, Len(s)), 8))
        ELSE IF Len(s) > 2 /\ s[1] = "0" /\ s[2] \in {"b", "B"}
        THEN FloatOfUint(ParseUintBase(SubSeq(s, 3, Len(s)), 2))
        ELSE ParseFloat(s)

\* strconv.UnquoteChar: the character at the head of s inside quotes of the
\* given kind, and the rest.  The numeric escapes (\x, \u, \U, octal) are
\* outside the bounded strings and are not told apart from the unknown ones.
UnquoteChar(s, quote) ==
    LET c == s[1]
        e == s[2]
        esc(r) == [ok |-> TRUE, r |-> r, rem |-> SubSeq(s, 3, Len(s))]
        bad == [ok |-> FALSE, r |-> "", rem |-> s]
    IN  IF c = quote THEN bad
        ELSE IF c # "\\" THEN [ok |-> TRUE, r |-> c, rem |-> Tail(s)]
        ELSE IF Len(s) <= 1 THEN bad
        ELSE CASE e = "n" -> esc("\n")
               [] e = "t" -> esc("\t")
               [] e = "r" -> esc("\r")
               [] e = "f" -> esc("\f")
               [] e = "a" -> esc("<BEL>")
               [] e = "b" -> esc("<BS>")
               [] e = "v" -> esc("<VT>")
               [] e = "\\" -> esc("\\")
               [] e \in {"'", "\""} -> IF e = quote THEN esc(e) ELSE bad
               [] OTHER -> bad

RECURSIVE UnquoteLoop(_, _, _)
\* strconv.unquote's loop over the characters after the opening quote, up to
\* the terminating quote; a single-quoted text holds one character.
UnquoteLoop(in, quote, out) ==
    IF in = <<>> THEN Err("syntax")
    ELSE IF in[1] = quote
    THEN (IF Len(in) = 1 THEN Ok(out) ELSE Err("syntax"))
    ELSE LET u == UnquoteChar(in, quote)
         IN  IF in[1] = "\n" \/ ~u.ok THEN Err("syntax")
             ELSE IF quote = "'"
             THEN (IF u.rem = <<"'">> THEN Ok(out \o <<u.r>>) ELSE Err("syntax"))
             ELSE UnquoteLoop(u.rem, quote, out \o <<u.r>>)

\* strconv.Unquote of a text in double or single quotes.
Unquote(s) ==
    IF ByteLen(s) < 2 \/ s[1] \notin {"\"", "'"} THEN Err("syntax")
    ELSE IF \A i \in 2..Len(s) : s[i] # s[1] THEN Err("syntax")
    ELSE UnquoteLoop(Tail(s), s[1], <<>>)

\* BooleanValue.ToBool
BooleanToBool(raw) ==
    CASE raw = <<"t", "r", "u", "e">> -> Ok(TRUE)
      [] raw = <<"f", "a", "l", "s", "e">> -> Ok(FALSE)
      [] OTHER -> Err("invalid boolean")

\* IsZero with a String zero-test that takes the empty quoted string for zero.
IsZeroOfEmptyQuoted(v) ==
    CASE v.Type = "Zero" -> TRUE
      [] v.Type = "Nil" -> TRUE
      [] v.Type = "String" -> ByteLen(v.raw) <= 2
      [] v.Type = "Number" ->
             NumberToFloat(v.raw).ok /\ NumberToFloat(v.raw).val.m = 0
      [] v.Type = "Boolean" -> v.raw = <<"f", "a", "l", "s", "e">>
      [] OTHER -> FALSE

\* IsZero without the IsZero method of NilValue.
IsZeroWithoutNil(v) ==
    CASE v.Type = "Zero" -> TRUE
      [] v.Type = "String" -> ByteLen(v.raw) < 2
      [] v.Type = "Number" ->
             NumberToFloat(v.raw).ok /\ NumberToFloat(v.raw).val.m = 0
      [] v.Type = "Boolean" -> v.raw = <<"f", "a", "l", "s", "e">>
      [] OTHER -> FALSE

\* IsZero: the IsZero method of the variants that have one, false otherwise.
IsZero(v) ==
    CASE v.Type = "Zero" -> TRUE
      [] v.Type = "Nil" -> TRUE
      [] v.Type = "String" -> ByteLen(v.raw) < 2
      [] v.Type = "Number" ->
             NumberToFloat(v.raw).ok /\ NumberToFloat(v.raw).val.m = 0
      [] v.Type = "Boolean" -> v.raw = <<"f", "a", "l", "s", "e">>
      [] OTHER -> FALSE

\* ToString with a ToString method of NumberValue that gives the raw text.
ValueToStringOfNumber(v) ==
    CASE v.Type = "String" -> Unquote(v.raw)
      [] v.Type \in {"Identifier", "Number"} -> Ok(v.raw)
      [] OTHER -> NotConvertible

\* ToString (the name ToString is taken by the TLC module).
ValueToString(v) ==
    CASE v.Type = "String" -> Unquote(v.raw)
      [] v.Type = "Identifier" -> Ok(v.raw)
      [] OTHER -> NotConvertible

ToFloat(v) == IF v.Type = "Number" THEN NumberToFloat(v.raw) ELSE NotConvertible

ToInt(v) == IF v.Type = "Number" THEN ParseInt(v.raw) ELSE NotConvertible

ToUint(v) == IF v.Type = "Number" THEN ParseUint(v.raw) ELSE NotConvertible

ToBool(v) == IF v.Type = "Boolean" THEN BooleanToBool(v.raw) ELSE NotConvertible

(***************************************************************************)
(* The builder's quoting rule.                                             *)
(***************************************************************************)
\* strings.ContainsAny(s, chars)
ContainsAny(s, chars) == \E i \in 1..Len(s) : s[i] \in chars

\* NeedsQuoting without the keywords.
NeedsQuotingNoKeywords(s) ==
    \/ s = <<>>
    \/ ContainsAny(s, {" ", ",", ";", ":", "=", "\\"})

NeedsQuoting(s) ==
    \/ s = <<>>
    \/ ContainsAny(s, {" ", ",", ";", ":", "=", "\\"})
    \/ s = <<"t", "r", "u", "e">>
    \/ s = <<"f", "a", "l", "s", "e">>
    \/ s = <<"n", "i", "l">>

\* A value handed to the builder: a Go string, nil, or any other value with
\* the text fmt.Sprint gives it.
StringArg(s) == [t |-> "string", s |-> s]
NilArg == [t |-> "nil", s |-> <<>>]
OtherArg(printed) == [t |-> "other", s |-> printed]

RECURSIVE QuoteBody(_)
\* strconv.Quote's body for printable characters: `"` and `\` are escaped.
QuoteBody(s) ==
    IF s = <<>> THEN <<>>
    ELSE (IF Head(s) \in {"\"", "\\"} THEN <<"\\", Head(s)>> ELSE <<Head(s)>>)
         \o QuoteBody(Tail(s))

\* fmt.Sprintf("%q", val)
Quote(s) == <<"\"">> \o QuoteBody(s) \o <<"\"">>

RECURSIVE Join(_, _)
\* strings.Join
Join(parts, sep) ==
    IF parts = <<>> THEN <<>>
    ELSE IF Len(parts) = 1 THEN parts[1]
    ELSE parts[1] \o sep \o Join(Tail(parts), sep)

BuilderOptions(quote, field, list, pairs, assign) ==
    [AlwaysQuoteStrings |-> quote, SpaceAfterFieldSeparator |-> field,
     SpaceAfterListSeparator |-> list, SpaceAfterPairsSeparator |-> pairs,
     SpaceAroundFieldAssignment |-> assign]

formatValue(opt, v) ==
    CASE v.t = "string" ->
             IF opt.AlwaysQuoteStrings \/ NeedsQuoting(v.s) THEN Quote(v.s) ELSE v.s
      [] v.t = "nil" -> <<"n", "i", "l">>
      [] OTHER -> v.s

BuilderDefaults == BuilderOptions(FALSE, FALSE, FALSE, FALSE, FALSE)

ErrOddNumberOfPairs == "odd number of pairs"
ErrOrderedFieldAfterLabeled == "ordered field after labeled field"

\* type Builder; err is "nil" when no error is set.  log lists the calls
\* made, each with its method and its number of values.
Builder(options, fields, hasLabeled, err) ==
    [options |-> options, fields |-> fields, hasLabeled |-> hasLabeled,
     err |-> err, log |-> <<>>]

Builder_setError(bd, err) ==
    IF bd.err = "nil" THEN [bd EXCEPT !.err = err] ELSE bd

\* add without the test of the error.
Builder_addAlways(bd, field) == [bd EXCEPT !.fields = Append(@, field)]

Builder_add(bd, field) ==
    IF bd.err # "nil" THEN bd ELSE [bd EXCEPT !.fields = Append(@, field)]

Builder_Err(bd) == bd.err

Builder_Ordered(bd, value) ==
    IF bd.hasLabeled THEN Builder_setError(bd, ErrOrderedFieldAfterLabeled)
    ELSE Builder_add(bd, formatValue(bd.options, value))

Builder_Enable(bd, name) == Builder_add([bd EXCEPT !.hasLabeled = TRUE], <<"^">> \o name)

Builder_Disable(bd, name) == Builder_add([bd EXCEPT !.hasLabeled = TRUE], <<"!">> \o name)

Builder_Boolean(bd, name, value) ==
    IF value THEN Builder_Enable(bd, name) ELSE Builder_Disable(bd, name)

\* equals := "=" or " = "
Equals(opt) == IF opt.SpaceAroundFieldAssignment THEN <<" ", "=", " ">> ELSE <<"=">>

\* separator := ";" or "; "
ListSeparator(opt) == IF opt.SpaceAfterListSeparator THEN <<";", " ">> ELSE <<";">>

Builder_Labeled(bd, name, value) ==
    Builder_add([bd EXCEPT !.hasLabeled = TRUE],
        name \o Equals(bd.options) \o formatValue(bd.options, value))

Builder_List(bd, name, values) ==
    LET parts == [i \in 1..Len(values) |-> formatValue(bd.options, values[i])]
    IN  Builder_add([bd EXCEPT !.hasLabeled = TRUE],
            name \o Equals(bd.options) \o Join(parts, ListSeparator(bd.options)))

Builder_Pairs(bd, name, pairs) ==
    LET b1 == [bd EXCEPT !.hasLabeled = TRUE]
        colon == IF bd.options.SpaceAfterPairsSeparator THEN <<":", " ">> ELSE <<":">>
        parts == [i \in 1..(Len(pairs) \div 2) |->
                      formatValue(bd.options, pairs[2 * i - 1]) \o colon
                      \o formatValue(bd.options, pairs[2 * i])]
    IN  IF Len(pairs) % 2 # 0 THEN Builder_setError(b1, ErrOddNumberOfPairs)
        ELSE Builder_add(b1, name \o Equals(bd.options)
                     \o Join(parts, ListSeparator(bd.options)))

Builder_String(bd) ==
    IF bd.err # "nil" THEN <<>>
    ELSE Join(bd.fields,
              IF bd.options.SpaceAfterFieldSeparator THEN <<",", " ">> ELSE <<",">>)

NewBuilderWithOptions(options) == Builder(options, <<>>, FALSE, "nil")

NewBuilder == NewBuilderWithOptions(BuilderDefaults)

Event(kind, value, pos, msg) == [kind |-> kind, value |-> value, pos |-> pos, msg |-> msg]

ListStartEvent == Event("ListStart", NoValue, Position(0, 0), <<>>)
ListEndEvent == Event("ListEnd", NoValue, Position(0, 0), <<>>)
MapStartEvent == Event("MapStart", NoValue, Position(0, 0), <<>>)
MapEndEvent == Event("MapEnd", NoValue, Position(0, 0), <<>>)
MapKeyEvent(v) == Event("MapKey", v, Position(0, 0), <<>>)
ValueEvent(v) == Event("FieldValue", v, Position(0, 0), <<>>)
ErrorEvent(pos, msg) == Event("Error", NoValue, pos, msg)

startState == 0
orderedState == 1
labeledState == 2
eofState == 3

(***************************************************************************)
(* iter.Pull over Lex(input): the scanner as the parser's token source.    *)
(* The scanner is deterministic, so the coroutine is the scan pulled to    *)
(* the end (scan), the number n of resumes so far, and whether stop() has  *)
(* cut it short.                                                           *)
(***************************************************************************)
RECURSIVE LexUntil(_, _)
\* The lexer resumed until it has yielded n tokens or runPattern has returned.
LexUntil(lx0, n) == Once(lx0, LAMBDA lx :
    IF Len(lx.yielded) >= n THEN lx
    ELSE IF ~running(lx) THEN [lx EXCEPT !.returned = TRUE]
    ELSE LexUntil(stateFn(lx), n))

\* iter.Pull(Lex(in)): nothing runs before the first next().
Pull(in) == [scan |-> runPattern(Lex(in, 0)), n |-> 0, stopped |-> FALSE]

\* The lexer behind the coroutine, as it stands.
Coroutine(nx) ==
    LET lx == LexUntil(Lex(nx.scan.input, 0), nx.n)
    IN  IF nx.stopped THEN [lx EXCEPT !.done = TRUE, !.returned = TRUE] ELSE lx

\* next(): resume the scanner until it yields a token or returns.
Pull_next(nx) ==
    IF nx.stopped \/ nx.n > Len(nx.scan.yielded)
    THEN [ok |-> FALSE, tok |-> Token(TokenError, Position(0, 0), <<>>), nx |-> nx]
    ELSE IF nx.n = Len(nx.scan.yielded)
    THEN [ok |-> FALSE, tok |-> Token(TokenError, Position(0, 0), <<>>),
          nx |-> [nx EXCEPT !.n = @ + 1]]
    ELSE [ok |-> TRUE, tok |-> nx.scan.yielded[nx.n + 1],
          nx |-> [nx EXCEPT !.n = @ + 1]]

\* stop(): a scanner suspended in yield sees yield return false.
Pull_stop(nx) ==
    IF nx.n > 0 /\ nx.n <= Len(nx.scan.yielded)
    THEN [nx EXCEPT !.stopped = TRUE] ELSE nx

(***************************************************************************)
(* The parser: type Parser and its methods.  next is the pulled scanner,   *)
(* events every event handed to the yield callback, stopAfter the consumer *)
(* (as for the scanner), pulls the number of calls of next, pulledAt the   *)
(* value of pulls at each event, ret the value the last parse function     *)
(* returned, inDict whether parseBooleanPrefix was called by               *)
(* parseDictEntry.                                                         *)
(***************************************************************************)
\* ParseDefaults: the default parsing options.
ParseDefaults == [AllowOrdered |-> TRUE]

\* ParseTokens: opt is the defaults unless options are given.
Options(opts) == IF Len(opts) > 0 THEN opts[1] ELSE ParseDefaults

\* ParseTokens: the Parser literal, with opt and the pulled Lex(input).
Parser(in, allowOrdered, stopAfter) ==
    [config |-> [AllowOrdered |-> allowOrdered],
     next |-> Pull(in),
     done |-> FALSE,
     peeked |-> <<>>,
     current |-> Token(TokenError, Position(0, 0), <<>>),
     hasToken |-> FALSE,
     state |-> startState,
     events |-> <<>>, stopAfter |-> stopAfter, pulls |-> 0, pulledAt |-> <<>>,
     pc |-> "parseFieldList", ret |-> TRUE, inDict |-> FALSE]

\* A faulty emit: yield is called whatever done is.
Parser_emitUnguarded(ps0, event) == Once(ps0, LAMBDA ps :
    [ps EXCEPT !.events = Append(@, event),
               !.pulledAt = Append(@, ps.pulls),
               !.done = ps.done \/ (Len(ps.events) + 1 = ps.stopAfter)])

Parser_emit(ps0, event) == Once(ps0, LAMBDA ps :
    IF ps.done THEN ps
    ELSE [ps EXCEPT !.events = Append(@, event),
                    !.pulledAt = Append(@, ps.pulls),
                    !.done = (Len(ps.events) + 1 = ps.stopAfter)])

\* A faulty errorf: the Error event is emitted, but the caller is told to go on.
errorfReturningTrue(ps, msg) ==
    [Parser_emit(ps, ErrorEvent(ps.current.Pos, msg)) EXCEPT !.ret = TRUE]

Parser_errorf(ps, msg) ==
    [Parser_emit(ps, ErrorEvent(ps.current.Pos, msg)) EXCEPT !.ret = FALSE]

\* A faulty peek: a token is fetched even when the lookahead slot is full.
peekAlwaysPulls(ps) ==
    LET r == Pull_next(ps.next)
    IN  [ps EXCEPT !.next = r.nx, !.pulls = @ + 1,
                   !.peeked = IF r.ok THEN <<r.tok>> ELSE <<>>]

Parser_peek(ps0) == Once(ps0, LAMBDA ps :
    IF ps.peeked = <<>>
    THEN LET r == Pull_next(ps.next)
         IN  [ps EXCEPT !.next = r.nx, !.pulls = @ + 1,
                        !.peeked = IF r.ok THEN <<r.tok>> ELSE <<>>]
    ELSE ps)

\* isNext: the parser after the peek; the answer is isNextIs of it.
isNextIs(ps, typs) == ps.peeked # <<>> /\ ps.peeked[1].Typ \in typs

advance(ps0) == Once(ps0, LAMBDA ps :
    IF ps.peeked # <<>>
    THEN [ps EXCEPT !.current = ps.peeked[1], !.peeked = <<>>, !.hasToken = TRUE]
    ELSE LET r == Pull_next(ps.next)
         IN  IF r.ok
             THEN [ps EXCEPT !.next = r.nx, !.pulls = @ + 1,
                             !.hasToken = TRUE, !.current = r.tok]
             ELSE [ps EXCEPT !.next = r.nx, !.pulls = @ + 1, !.hasToken = FALSE])

\* A faulty isToken: a present token of any kind passes.
isTokenAny(ps, typ) ==
    IF ~ps.hasToken THEN Parser_errorf(ps, <<"unexpected end of input">>)
    ELSE [ps EXCEPT !.ret = TRUE]

isToken(ps0, typ) == Once(ps0, LAMBDA ps :
    IF ~ps.hasToken THEN Parser_errorf(ps, <<"unexpected end of input">>)
    ELSE IF ps.current.Typ # typ
         THEN Parser_errorf(ps, <<"expected ", typ, ", got ", ps.current.Typ>>)
         ELSE [ps EXCEPT !.ret = TRUE])

toValue(ps) == valueFromToken(ps.current)

ValueTokens == {TokenIdentifier, TokenNumber, TokenString, TokenTrue, TokenFalse, TokenNil}

\* A faulty isValue: every token passes for a value.
isValueAny(ps) == [ps EXCEPT !.ret = TRUE]

isValue(ps0) == Once(ps0, LAMBDA ps :
    IF ps.current.Typ \in ValueTokens THEN [ps EXCEPT !.ret = TRUE]
    ELSE Parser_errorf(ps, <<"expected value, got ", ps.current.Typ>>))

\* A faulty updateState: the list is left open when the labeled section starts.
updateStateNoListEnd(ps0, newState) == Once(ps0, LAMBDA ps :
    LET e == CASE ps.state = startState /\ newState = orderedState ->
                      Parser_emit(ps, ListStartEvent)
               [] ps.state \in {startState, orderedState} /\ newState = labeledState ->
                      Parser_emit(ps, MapStartEvent)
               [] newState = eofState /\ ps.state = orderedState ->
                      Parser_emit(ps, ListEndEvent)
               [] newState = eofState /\ ps.state = labeledState ->
                      Parser_emit(ps, MapEndEvent)
               [] OTHER -> ps
    IN  [e EXCEPT !.state = newState])

updateState(ps0, newState) == Once(ps0, LAMBDA ps :
    LET e == CASE ps.state = startState /\ newState = orderedState ->
                      Parser_emit(ps, ListStartEvent)
               [] ps.state = startState /\ newState = labeledState ->
                      Parser_emit(ps, MapStartEvent)
               [] ps.state = orderedState /\ newState = labeledState ->
                      Parser_emit(Parser_emit(ps, ListEndEvent), MapStartEvent)
               [] newState = eofState /\ ps.state = orderedState ->
                      Parser_emit(ps, ListEndEvent)
               [] newState = eofState /\ ps.state = labeledState ->
                      Parser_emit(ps, MapEndEvent)
               [] OTHER -> ps
    IN  [e EXCEPT !.state = newState])

at(ps, pc) == [ps EXCEPT !.pc = pc]

\* A parse function returned ps.ret to parseFieldList: false leaves it, true
\* goes round the loop (with or without the continue).
fieldReturned(ps) == IF ps.ret THEN at(ps, "parseFieldList") ELSE at(ps, "return")

(***************************************************************************)
(* The parse functions, one per position pc.                               *)
(***************************************************************************)
\* parseFieldList, the loop head: !p.done && p.advance(), then the EOF break.
parseFieldList(ps) ==
    IF ps.done THEN at(ps, "updateStateEOF")
    ELSE LET a == advance(ps)
         IN  IF ~a.hasToken \/ a.current.Typ = TokenEOF
             THEN at(a, "updateStateEOF")
             ELSE at(a, "parseField")

\* A faulty end of parseFieldList: a document always closes a list, opened
\* here when no field opened a section.
parseFieldListEndAlwaysList(ps) ==
    at(updateState(IF ps.state = startState THEN updateState(ps, orderedState) ELSE ps,
                   eofState), "return")

\* parseFieldList, after the loop: p.updateState(eofState) and the return.
parseFieldListEnd(ps) == at(updateState(ps, eofState), "return")

\* parseField, to the call or return of the branch taken.
\* A faulty parseField: a token no field starts with is passed over.
parseFieldSkipping(ps) ==
    LET typ == ps.current.Typ
        pk == IF typ = TokenIdentifier THEN Parser_peek(ps) ELSE ps
    IN  CASE typ = TokenBooleanPrefix ->
                 [updateState(ps, labeledState) EXCEPT !.pc = "parseBooleanPrefix",
                                                       !.inDict = FALSE]
          [] typ = TokenIdentifier /\ isNextIs(pk, {TokenAssign}) ->
                 at(updateState(pk, labeledState), "parseAssignment")
          [] typ \in ValueTokens \cup {TokenFieldSeparator}
               /\ ~(typ = TokenIdentifier /\ isNextIs(pk, {TokenAssign})) ->
                 IF ~pk.config.AllowOrdered \/ pk.state > orderedState
                 THEN fieldReturned(Parser_errorf(pk, <<"ordered value not allowed here">>))
                 ELSE at(updateState(pk, orderedState),
                         IF typ = TokenFieldSeparator THEN "orderedZero"
                         ELSE "parseValueContent")
          [] OTHER -> fieldReturned([ps EXCEPT !.ret = TRUE])

parseField(ps) ==
    LET typ == ps.current.Typ
        pk == IF typ = TokenIdentifier THEN Parser_peek(ps) ELSE ps
    IN  CASE typ = TokenBooleanPrefix ->
                 [updateState(ps, labeledState) EXCEPT !.pc = "parseBooleanPrefix",
                                                       !.inDict = FALSE]
          [] typ = TokenIdentifier /\ isNextIs(pk, {TokenAssign}) ->
                 at(updateState(pk, labeledState), "parseAssignment")
          [] typ \in ValueTokens \cup {TokenFieldSeparator}
               /\ ~(typ = TokenIdentifier /\ isNextIs(pk, {TokenAssign})) ->
                 IF ~pk.config.AllowOrdered \/ pk.state > orderedState
                 THEN fieldReturned(Parser_errorf(pk, <<"ordered value not allowed here">>))
                 ELSE at(updateState(pk, orderedState),
                         IF typ = TokenFieldSeparator THEN "orderedZero"
                         ELSE "parseValueContent")
          [] OTHER ->
                 fieldReturned(Parser_errorf(ps,
                     <<"expected field prefix, identifier, or value, got ", typ>>))

\* A faulty parseField: the empty ordered segment is dropped.
orderedZeroDropped(ps) == fieldReturned([ps EXCEPT !.ret = TRUE])

\* parseField, the empty ordered segment: the Zero value and return true.
orderedZero(ps) ==
    fieldReturned([Parser_emit(ps, ValueEvent(ZeroValue)) EXCEPT !.ret = TRUE])

\* A faulty parseBooleanPrefix: the value is true for "!" and false for "^".
parseBooleanPrefixBodyInverted(ps) ==
    LET prefix == ps.current.Val
        a == advance(ps)
        t == isToken(a, TokenIdentifier)
        k == Parser_emit(t, MapKeyEvent(toValue(t)))
        v == Parser_emit(k, ValueEvent(BooleanValue(FormatBool(prefix = <<"!">>))))
        e == advance(v)
    IN  IF ~a.hasToken THEN [a EXCEPT !.ret = FALSE]
        ELSE IF ~t.ret THEN t
        ELSE [e EXCEPT !.ret = e.hasToken]

\* parseBooleanPrefix, as a function: the parser on return, ret its result.
parseBooleanPrefixBody(ps) ==
    LET prefix == ps.current.Val
        a == advance(ps)
        t == isToken(a, TokenIdentifier)
        k == Parser_emit(t, MapKeyEvent(toValue(t)))
        v == Parser_emit(k, ValueEvent(BooleanValue(FormatBool(prefix = <<"^">>))))
        e == advance(v)
    IN  IF ~a.hasToken THEN [a EXCEPT !.ret = FALSE]
        ELSE IF ~t.ret THEN t
        ELSE [e EXCEPT !.ret = e.hasToken]

\* A dict entry returned ps.ret to parseDictValue.
entryReturned(ps) == IF ps.ret THEN at(ps, "parseDictLoop") ELSE at(ps, "return")

parseBooleanPrefix(ps) ==
    IF ps.inDict THEN entryReturned(parseBooleanPrefixBody(ps))
    ELSE fieldReturned(parseBooleanPrefixBody(ps))

\* A faulty parseAssignment: an empty assignment emits its key and no value.
parseAssignmentNoZero(ps) ==
    LET k == Parser_emit(ps, MapKeyEvent(toValue(ps)))
        a == advance(k)
        pk == Parser_peek(a)
        n == advance(pk)
    IN  IF isNextIs(pk, {TokenFieldSeparator, TokenEOF})
        THEN fieldReturned([n EXCEPT !.ret = TRUE])
        ELSE IF ~n.hasToken THEN fieldReturned([n EXCEPT !.ret = FALSE])
        ELSE at(n, "parseValueContent")

\* parseAssignment, to its return or to the call of parseValueContent.
parseAssignment(ps) ==
    LET k == Parser_emit(ps, MapKeyEvent(toValue(ps)))
        a == advance(k)
        pk == Parser_peek(a)
        z == Parser_emit(advance(pk), ValueEvent(ZeroValue))
        n == advance(pk)
    IN  IF isNextIs(pk, {TokenFieldSeparator, TokenEOF})
        THEN fieldReturned([z EXCEPT !.ret = TRUE])
        ELSE IF ~n.hasToken THEN fieldReturned([n EXCEPT !.ret = FALSE])
        ELSE at(n, "parseValueContent")

\* A faulty parseValueContent: a PairSeparator after the first value starts a
\* list, as a ListSeparator does.
parseValueContentListFirst(ps) ==
    LET v == isValue(ps)
        pk == Parser_peek(v)
        e == advance(Parser_emit(pk, ValueEvent(toValue(pk))))
    IN  CASE ps.current.Typ = TokenBooleanPrefix -> at(ps, "parseDictValue")
          [] ps.current.Typ # TokenBooleanPrefix /\ ~v.ret -> fieldReturned(v)
          [] ps.current.Typ # TokenBooleanPrefix /\ v.ret
               /\ isNextIs(pk, {TokenPairSeparator, TokenListSeparator}) ->
                 at(pk, "parseListValue")
          [] OTHER -> fieldReturned([e EXCEPT !.ret = TRUE])

\* parseValueContent, to its return or to the call of the list or dict parser.
parseValueContent(ps) ==
    LET v == isValue(ps)
        pk == Parser_peek(v)
        pk2 == Parser_peek(pk)
        e == advance(Parser_emit(pk2, ValueEvent(toValue(pk2))))
    IN  CASE ps.current.Typ = TokenBooleanPrefix -> at(ps, "parseDictValue")
          [] ps.current.Typ # TokenBooleanPrefix /\ ~v.ret -> fieldReturned(v)
          [] ps.current.Typ # TokenBooleanPrefix /\ v.ret
               /\ isNextIs(pk, {TokenPairSeparator}) -> at(pk, "parseDictValue")
          [] ps.current.Typ # TokenBooleanPrefix /\ v.ret
               /\ ~isNextIs(pk, {TokenPairSeparator})
               /\ isNextIs(pk2, {TokenListSeparator}) -> at(pk2, "parseListValue")
          [] OTHER -> fieldReturned([e EXCEPT !.ret = TRUE])

\* parseListValue, to the head of its loop.
\* A faulty parseListValue: the list of a field gets no ListStart of its own.
parseListValueFlat(ps) ==
    at(advance(Parser_emit(ps, ValueEvent(toValue(ps)))), "parseListLoop")

parseListValue(ps) ==
    LET s0 == Parser_emit(ps, ListStartEvent)
        s1 == Parser_emit(s0, ValueEvent(toValue(s0)))
    IN  at(advance(s1), "parseListLoop")

\* A faulty parseListValue: a ListSeparator followed by no value gives a Zero
\* value, and the loop goes on at the token that follows.
parseListLoopZero(ps) ==
    LET a == advance(ps)
        v == isValue(a)
        e == advance(Parser_emit(v, ValueEvent(toValue(v))))
    IN  IF ps.hasToken /\ ps.current.Typ = TokenListSeparator
        THEN IF ~a.hasToken THEN fieldReturned([a EXCEPT !.ret = FALSE])
             ELSE IF a.current.Typ \notin ValueTokens
                  THEN at(Parser_emit(a, ValueEvent(ZeroValue)), "parseListLoop")
                  ELSE at(e, "parseListLoop")
        ELSE fieldReturned([Parser_emit(ps, ListEndEvent) EXCEPT !.ret = TRUE])

\* parseListValue, one turn of its loop, or the ListEnd and return true.
parseListLoop(ps) ==
    LET a == advance(ps)
        v == isValue(a)
        e == advance(Parser_emit(v, ValueEvent(toValue(v))))
    IN  IF ps.hasToken /\ ps.current.Typ = TokenListSeparator
        THEN IF ~a.hasToken THEN fieldReturned([a EXCEPT !.ret = FALSE])
             ELSE IF ~v.ret THEN fieldReturned(v)
             ELSE at(e, "parseListLoop")
        ELSE fieldReturned([Parser_emit(ps, ListEndEvent) EXCEPT !.ret = TRUE])

\* parseDictValue, to the call of the first parseDictEntry.
parseDictValue(ps) == at(Parser_emit(ps, MapStartEvent), "parseDictEntry")

\* parseDictEntry: the choice between the two kinds of entry.
parseDictEntry(ps) ==
    IF ps.current.Typ = TokenBooleanPrefix
    THEN [ps EXCEPT !.pc = "parseBooleanPrefix", !.inDict = TRUE]
    ELSE at(ps, "parseDictPair")

\* A faulty parseDictPair: the key is tested and consumed but not emitted.
parseDictPairNoKey(ps) ==
    LET k0 == isValue(ps)
        a1 == advance(k0)
        t == isToken(a1, TokenPairSeparator)
        a2 == advance(t)
        v0 == isValue(a2)
        v1 == Parser_emit(v0, ValueEvent(toValue(v0)))
        a3 == advance(v1)
    IN  entryReturned(
          IF ~k0.ret THEN k0
          ELSE IF ~a1.hasToken THEN [a1 EXCEPT !.ret = FALSE]
          ELSE IF ~t.ret THEN t
          ELSE IF ~a2.hasToken THEN [a2 EXCEPT !.ret = FALSE]
          ELSE IF ~v0.ret THEN v0
          ELSE IF v1.done THEN [v1 EXCEPT !.ret = FALSE]
          ELSE [a3 EXCEPT !.ret = a3.hasToken])

parseDictPair(ps) ==
    LET k0 == isValue(ps)
        k1 == Parser_emit(k0, MapKeyEvent(toValue(k0)))
        a1 == advance(k1)
        t == isToken(a1, TokenPairSeparator)
        a2 == advance(t)
        v0 == isValue(a2)
        v1 == Parser_emit(v0, ValueEvent(toValue(v0)))
        a3 == advance(v1)
    IN  entryReturned(
          IF ~k0.ret THEN k0
          ELSE IF ~a1.hasToken THEN [a1 EXCEPT !.ret = FALSE]
          ELSE IF ~t.ret THEN t
          ELSE IF ~a2.hasToken THEN [a2 EXCEPT !.ret = FALSE]
          ELSE IF ~v0.ret THEN v0
          ELSE IF v1.done THEN [v1 EXCEPT !.ret = FALSE]
          ELSE [a3 EXCEPT !.ret = a3.hasToken])

\* A faulty parseDictValue: no MapEnd after the last entry.
parseDictLoopNoEnd(ps) ==
    LET a == advance(ps)
    IN  IF ps.current.Typ = TokenListSeparator
        THEN IF ~a.hasToken THEN fieldReturned([a EXCEPT !.ret = FALSE])
             ELSE at(a, "parseDictEntry")
        ELSE fieldReturned([ps EXCEPT !.ret = TRUE])

\* parseDictValue, one turn of its loop, or the MapEnd and return true.
parseDictLoop(ps) ==
    LET a == advance(ps)
    IN  IF ps.current.Typ = TokenListSeparator
        THEN IF ~a.hasToken THEN fieldReturned([a EXCEPT !.ret = FALSE])
             ELSE at(a, "parseDictEntry")
        ELSE fieldReturned([Parser_emit(ps, MapEndEvent) EXCEPT !.ret = TRUE])

\* ParseTokens, the deferred stop() once parseFieldList has returned.
stop(ps) == [ps EXCEPT !.next = Pull_stop(ps.next), !.pc = "done"]

\* The step the parser takes at its position.
ParserStep(ps) ==
    CASE ps.pc = "parseFieldList" -> parseFieldList(ps)
      [] ps.pc = "updateStateEOF" -> parseFieldListEnd(ps)
      [] ps.pc = "parseField" -> parseField(ps)
      [] ps.pc = "orderedZero" -> orderedZero(ps)
      [] ps.pc = "parseBooleanPrefix" -> parseBooleanPrefix(ps)
      [] ps.pc = "parseAssignment" -> parseAssignment(ps)
      [] ps.pc = "parseValueContent" -> parseValueContent(ps)
      [] ps.pc = "parseListValue" -> parseListValue(ps)
      [] ps.pc = "parseListLoop" -> parseListLoop(ps)
      [] ps.pc = "parseDictValue" -> parseDictValue(ps)
      [] ps.pc = "parseDictEntry" -> parseDictEntry(ps)
      [] ps.pc = "parseDictPair" -> parseDictPair(ps)
      [] ps.pc = "parseDictLoop" -> parseDictLoop(ps)
      [] ps.pc = "return" -> stop(ps)

RECURSIVE RunParser(_)
\* The parser run to the end of ParseTokens.
RunParser(ps0) == Once(ps0, LAMBDA ps :
    IF ps.pc = "done" THEN ps ELSE RunParser(ParserStep(ps)))

\* Parse(input, opts) ranged over by a consumer: the events it is handed.
Parse(in, allowOrdered, stopAfter) == RunParser(Parser(in, allowOrdered, stopAfter)).events

(***************************************************************************)
(* Inputs.  An input is a prefix that sets a context up, followed by every *)
(* tail over the alphabet up to the bound.                                 *)
(***************************************************************************)
\* Every sequence over A of length at most n.
Tails(A, n) == UNION {[1..k -> A] : k \in 0..n}

LexAlphabet == {"0", "1", "8", "a", "e", "p", "_", ".", "+", "-", "\"", "'", "\\",
                " ", "=", "#", "é"}

LexPrefixes ==
    {<<>>, <<"0", "x">>, <<"0", "X", "f", ".">>, <<"0", "x", "1", "p">>,
     <<"0", "x", "1", ".", "8", "P", "-">>, <<"0", "o">>, <<"0", "O", "7">>,
     <<"0", "b">>, <<"0", "B", "1">>, <<"0", "e">>, <<"1", "e">>, <<"1", ".", "5", "E">>,
     <<"t", "r", "u">>, <<"t", "r", "u", "E">>, <<"f", "a", "l", "s">>, <<"n", "i">>,
     <<"\"", "a">>, <<"\"", "\\">>, <<"a", ",">>,
     <<"é", "\n">>}

LexInputs == {pre \o t : pre \in LexPrefixes, t \in Tails(LexAlphabet, MaxLexTail)}

ParseAlphabet == {"a", "1", "=", ",", ";", ":", "^", "!", " ", "#"}

ParsePrefixes ==
    {<<>>, <<"a", "=">>, <<"a", "=", "1", ";">>, <<"a", "=", "b", ":">>,
     <<"a", "=", "b", ":", "1", ";">>, <<"a", "=", "b", ":", "1", ";", "c">>,
     <<"a", "=", "^", "b", ";">>,
     <<"^", "a", ",">>, <<"1", ",">>, <<"a", "=", "1", ",">>,
     <<"1", ";">>, <<"a", ":">>, <<"\t", "\n", "\r">>, <<"^">>,
     <<"1", " ">>, <<"a", "=", "1", " ">>, <<"a", "=", ",">>,
     <<"1", ",", "a", "=", "1", ";">>,
     <<"t", "r", "u", "e", ",", "n", "i", "l", ",", "'", "s", "'">>}

ParseInputs == {pre \o t : pre \in ParsePrefixes, t \in Tails(ParseAlphabet, MaxTail)}

(***************************************************************************)
(* SpecLex: Lex(input) ranged over by a consumer that pulls to the end,    *)
(* one action per state function.                                          *)
(***************************************************************************)
\* The parser is not part of a scan.
\* No conversion is under way.
NoCall == [value |-> NoValue, fn |-> "none", res |-> Ok(0)]

NoParser == Parser(<<>>, TRUE, 0)

InitLex ==
    /\ input \in LexInputs
    /\ l = Lex(input, 0)
    /\ p = NoParser
    /\ call = NoCall
    /\ builder = NewBuilder

\* A faulty round: lexTop leaves a blank where it is.
LexStepKeepingBlank(st, after) ==
    /\ running(l)
    /\ l.state = st
    /\ l' = IF st = "lexTop" /\ isSpace(peek(l).r) THEN l ELSE after
    /\ UNCHANGED <<input, p, call, builder>>

\* One round of runPattern's loop: the state function st takes l to after.
LexStep(st, after) ==
    /\ running(l)
    /\ l.state = st
    /\ l' = after
    /\ UNCHANGED <<input, p, call, builder>>

LexTop == LexStep("lexTop", lexTop(l))
LexIdentifierOrKeywordContinue == LexStep("lexIdentifierOrKeywordContinue", lexIdentifierOrKeywordContinue(l))
LexString == LexStep("lexString", lexString(l))
LexStringContent == LexStep("lexStringContent", lexStringContent(l))
LexNumber == LexStep("lexNumber", lexNumber(l))
LexDecimalDigits == LexStep("lexDecimalDigits", lexDecimalDigits(l))
LexDecimalFraction == LexStep("lexDecimalFraction", lexDecimalFraction(l))
LexDecimalFractionDigits == LexStep("lexDecimalFractionDigits", lexDecimalFractionDigits(l))
LexExponent == LexStep("lexExponent", lexExponent(l))
LexExponentDigits == LexStep("lexExponentDigits", lexExponentDigits(l))
LexHexDigits == LexStep("lexHexDigits", lexHexDigits(l))
LexHexDigitsContinue == LexStep("lexHexDigitsContinue", lexHexDigitsContinue(l))
LexHexFraction == LexStep("lexHexFraction", lexHexFraction(l))
LexHexFractionDigits == LexStep("lexHexFractionDigits", lexHexFractionDigits(l))
LexHexExponent == LexStep("lexHexExponent", lexHexExponent(l))
LexHexExponentDigits == LexStep("lexHexExponentDigits", lexHexExponentDigits(l))
LexOctalDigits == LexStep("lexOctalDigits", lexOctalDigits(l))
LexOctalDigitsContinue == LexStep("lexOctalDigitsContinue", lexOctalDigitsContinue(l))
LexBinaryDigits == LexStep("lexBinaryDigits", lexBinaryDigits(l))
LexBinaryDigitsContinue == LexStep("lexBinaryDigitsContinue", lexBinaryDigitsContinue(l))

\* runPattern leaves its loop and returns.
LexReturn ==
    /\ ~running(l)
    /\ ~l.returned
    /\ l' = [l EXCEPT !.returned = TRUE]
    /\ UNCHANGED <<input, p, call, builder>>

NextLex ==
    \/ LexTop
    \/ LexIdentifierOrKeywordContinue
    \/ LexString
    \/ LexStringContent
    \/ LexNumber
    \/ LexDecimalDigits
    \/ LexDecimalFraction
    \/ LexDecimalFractionDigits
    \/ LexExponent
    \/ LexExponentDigits
    \/ LexHexDigits
    \/ LexHexDigitsContinue
    \/ LexHexFraction
    \/ LexHexFractionDigits
    \/ LexHexExponent
    \/ LexHexExponentDigits
    \/ LexOctalDigits
    \/ LexOctalDigitsContinue
    \/ LexBinaryDigits
    \/ LexBinaryDigitsContinue
    \/ LexReturn

SpecLex == InitLex /\ [][NextLex]_vars

(***************************************************************************)
(* Spec: Parse(input, opts) ranged over by a consumer that pulls to the    *)
(* end, one action per position of the parser.                             *)
(***************************************************************************)
\* The scanner runs inside the parser (p.next), not on its own.
NoLexer == Lex(<<>>, 0)

Init ==
    /\ input \in ParseInputs
    /\ \E opts \in {<<>>, <<[AllowOrdered |-> FALSE]>>} :
           p = Parser(input, Options(opts).AllowOrdered, 0)
    /\ l = NoLexer
    /\ call = NoCall
    /\ builder = NewBuilder

\* The parser's step at position pc, which takes p to after.
ParseStep(pc, after) ==
    /\ p.pc = pc
    /\ p' = after
    /\ UNCHANGED <<input, l, call, builder>>

ParseFieldList == ParseStep("parseFieldList", parseFieldList(p))
ParseFieldListEnd == ParseStep("updateStateEOF", parseFieldListEnd(p))
ParseField == ParseStep("parseField", parseField(p))
OrderedZero == ParseStep("orderedZero", orderedZero(p))
ParseBooleanPrefix == ParseStep("parseBooleanPrefix", parseBooleanPrefix(p))
ParseAssignment == ParseStep("parseAssignment", parseAssignment(p))
ParseValueContent == ParseStep("parseValueContent", parseValueContent(p))
ParseListValue == ParseStep("parseListValue", parseListValue(p))
ParseListLoop == ParseStep("parseListLoop", parseListLoop(p))
ParseDictValue == ParseStep("parseDictValue", parseDictValue(p))
ParseDictEntry == ParseStep("parseDictEntry", parseDictEntry(p))
ParseDictPair == ParseStep("parseDictPair", parseDictPair(p))
ParseDictLoop == ParseStep("parseDictLoop", parseDictLoop(p))
Stop == ParseStep("return", stop(p))

Next ==
    \/ ParseFieldList
    \/ ParseFieldListEnd
    \/ ParseField
    \/ OrderedZero
    \/ ParseBooleanPrefix
    \/ ParseAssignment
    \/ ParseValueContent
    \/ ParseListValue
    \/ ParseListLoop
    \/ ParseDictValue
    \/ ParseDictEntry
    \/ ParseDictPair
    \/ ParseDictLoop
    \/ Stop

Spec == Init /\ [][Next]_vars

(***************************************************************************)
(* SpecStop: Parse(input) with the default options, ranged over by a       *)
(* consumer whose yield returns false on one of its first events.          *)
(***************************************************************************)
InitStop ==
    /\ input \in ParseInputs
    /\ \E n \in 1..MaxStop : p = Parser(input, Options(<<>>).AllowOrdered, n)
    /\ l = NoLexer
    /\ call = NoCall
    /\ builder = NewBuilder

SpecStop == InitStop /\ [][Next]_vars

(***************************************************************************)
(* SpecValue: the scan of a text, the value valueFromToken makes of its    *)
(* token when the text is one value token (the text `,` gives the Zero     *)
(* value of the empty segment before the separator), and one call of a     *)
(* conversion function on that value.                                      *)
(***************************************************************************)
ValueAlphabet == {"0", "1", "7", "8", "_", ".", "e", "-", "\"", "'", "\\", "n"}

ValuePrefixes ==
    {<<>>, <<"0">>, <<"0", "1">>, <<"1">>, <<"1", "e">>, <<"0", "x">>,
     <<"0", "X", "1", ".">>, <<"0", "x", "1", "p">>, <<"0", "o">>, <<"0", "B">>,
     <<"\"">>, <<"'">>, <<"\"", "\\">>,
     <<"t", "r", "u", "e">>, <<"f", "a", "l", "s">>, <<"n", "i", "l">>}

ValueInputs ==
    {<<",">>} \cup
    {pre \o t : pre \in ValuePrefixes, t \in Tails(ValueAlphabet, MaxValueTail)}

InitValue ==
    /\ input \in ValueInputs
    /\ l = Lex(input, 0)
    /\ p = NoParser
    /\ call = NoCall
    /\ builder = NewBuilder

\* The scan has returned and the text was one value token: its value.
ValueFromToken ==
    /\ l.returned
    /\ call.value = NoValue
    /\ Len(l.yielded) = 2
    /\ l.yielded[1].Typ \in ValueTokens
    /\ l.yielded[2].Typ = TokenEOF
    /\ call' = [call EXCEPT !.value = valueFromToken(l.yielded[1])]
    /\ UNCHANGED <<input, l, p, builder>>

\* The scan has returned and the text was the separator alone: the value of
\* the empty segment before it.
ValueOfEmptySegment ==
    /\ l.returned
    /\ call.value = NoValue
    /\ Len(l.yielded) = 2
    /\ l.yielded[1].Typ = TokenFieldSeparator
    /\ l.yielded[2].Typ = TokenEOF
    /\ call' = [call EXCEPT !.value = ZeroValue]
    /\ UNCHANGED <<input, l, p, builder>>

\* One call of the conversion fn on the value, with result res.
Convert(fn, res) ==
    /\ call.fn = "none"
    /\ call.value # NoValue
    /\ call' = [call EXCEPT !.fn = fn, !.res = res]
    /\ UNCHANGED <<input, l, p, builder>>

CallIsZero == Convert("IsZero", Ok(IsZero(call.value)))
CallToString == Convert("ToString", ValueToString(call.value))
CallToFloat == Convert("ToFloat", ToFloat(call.value))
CallToInt == Convert("ToInt", ToInt(call.value))
CallToUint == Convert("ToUint", ToUint(call.value))
CallToBool == Convert("ToBool", ToBool(call.value))

NextValue ==
    \/ NextLex
    \/ ValueFromToken
    \/ ValueOfEmptySegment
    \/ CallIsZero
    \/ CallToString
    \/ CallToFloat
    \/ CallToInt
    \/ CallToUint
    \/ CallToBool

SpecValue == InitValue /\ [][NextValue]_vars

(***************************************************************************)
(* SpecQuote: one call of NeedsQuoting on a text.                          *)
(***************************************************************************)
QuoteAlphabet == {" ", ",", ";", ":", "=", "\\", "a", "e", "-", "1", "\""}

QuotePrefixes ==
    {<<>>, <<"t", "r", "u", "e">>, <<"f", "a", "l", "s", "e">>, <<"n", "i", "l">>,
     <<"t", "r", "u">>, <<"T", "r", "u", "e">>, <<"n", "u", "l", "l">>}

QuoteInputs ==
    {pre \o t : pre \in QuotePrefixes, t \in Tails(QuoteAlphabet, MaxQuoteTail)}

InitQuote ==
    /\ input \in QuoteInputs
    /\ l = NoLexer
    /\ p = NoParser
    /\ call = NoCall
    /\ builder = NewBuilder

CallNeedsQuoting ==
    /\ call.fn = "none"
    /\ call' = [call EXCEPT !.fn = "NeedsQuoting", !.res = Ok(NeedsQuoting(input))]
    /\ UNCHANGED <<input, l, p, builder>>

NextQuote == CallNeedsQuoting

SpecQuote == InitQuote /\ [][NextQuote]_vars

(***************************************************************************)
(* SpecBuilder: a builder and up to MaxCalls calls of its methods, in any  *)
(* order.                                                                  *)
(***************************************************************************)
BuilderNames == {<<"n">>}

BuilderArgs == {StringArg(<<"v">>), StringArg(<<"x", " ", "y">>), NilArg}

\* The argument lists of List (any length) and Pairs (even and odd lengths).
ListArgs == UNION {[1..k -> {StringArg(<<"v">>), OtherArg(<<"1">>)}] : k \in 0..2}

PairsArgs == UNION {[1..k -> {StringArg(<<"k">>)}] : k \in 0..3}

InitBuilder ==
    /\ input = <<>>
    /\ l = NoLexer
    /\ p = NoParser
    /\ call = NoCall
    /\ builder \in {NewBuilder,
              NewBuilderWithOptions(BuilderOptions(TRUE, TRUE, TRUE, TRUE, TRUE))}

\* One more call on the builder, of method fn with n values, taking it to
\* after.
BuilderCall(fn, n, after) ==
    /\ Len(builder.log) < MaxCalls
    /\ builder' = [after EXCEPT !.log = Append(@, [fn |-> fn, n |-> n])]
    /\ UNCHANGED <<input, l, p, call>>

CallOrdered == \E v \in BuilderArgs : BuilderCall("Ordered", 1, Builder_Ordered(builder, v))
CallEnable == \E n \in BuilderNames : BuilderCall("Enable", 0, Builder_Enable(builder, n))
CallDisable == \E n \in BuilderNames : BuilderCall("Disable", 0, Builder_Disable(builder, n))
CallBoolean ==
    \E n \in BuilderNames, v \in BOOLEAN : BuilderCall("Boolean", 1, Builder_Boolean(builder, n, v))
CallLabeled ==
    \E n \in BuilderNames, v \in BuilderArgs : BuilderCall("Labeled", 1, Builder_Labeled(builder, n, v))
CallList ==
    \E n \in BuilderNames, vs \in ListArgs : BuilderCall("List", Len(vs), Builder_List(builder, n, vs))
CallPairs ==
    \E n \in BuilderNames, ps \in PairsArgs : BuilderCall("Pairs", Len(ps), Builder_Pairs(builder, n, ps))

NextBuilder ==
    \/ CallOrdered
    \/ CallEnable
    \/ CallDisable
    \/ CallBoolean
    \/ CallLabeled
    \/ CallList
    \/ CallPairs

SpecBuilder == InitBuilder /\ [][NextBuilder]_vars

(***************************************************************************)
(* SpecLive: the scan of a text by a consumer that pulls to the end, then  *)
(* the parse of the same text with the default options and a consumer that *)
(* never stops.  Both run as long as they have a step to take.             *)
(***************************************************************************)
LiveAlphabet == {"1", "a", " ", ",", ";", ":", "=", "\""}

LivePrefixes ==
    LexPrefixes \cup ParsePrefixes \cup
    {<<"1", ",", "1", ",">>, <<"a", "=", "1", ";", "1", ";">>, <<" ", " ">>,
     <<"'", "'">>, <<"a", "=", "\"", "\"">>, <<"a", "=", "'", "'", ":", "'", "b", "'">>}

LiveInputs == {pre \o t : pre \in LivePrefixes, t \in Tails(LiveAlphabet, MaxLiveTail)}

InitLive ==
    /\ input \in LiveInputs
    /\ l = Lex(input, 0)
    /\ p = Parser(input, ParseDefaults.AllowOrdered, 0)
    /\ call = NoCall
    /\ builder = NewBuilder

\* The parse, once the scan has returned.
ParseAfterScan ==
    \/ l.returned /\ ParseFieldList
    \/ l.returned /\ ParseFieldListEnd
    \/ l.returned /\ ParseField
    \/ l.returned /\ OrderedZero
    \/ l.returned /\ ParseBooleanPrefix
    \/ l.returned /\ ParseAssignment
    \/ l.returned /\ ParseValueContent
    \/ l.returned /\ ParseListValue
    \/ l.returned /\ ParseListLoop
    \/ l.returned /\ ParseDictValue
    \/ l.returned /\ ParseDictEntry
    \/ l.returned /\ ParseDictPair
    \/ l.returned /\ ParseDictLoop
    \/ l.returned /\ Stop

NextLive ==
    \/ NextLex
    \/ ParseAfterScan

SpecLive == InitLive /\ [][NextLive]_vars /\ WF_vars(NextLive)

(***************************************************************************)
(* SpecHalt: Lex(input) ranged over by a consumer whose yield returns      *)
(* false on the n-th token, then ParseTokens of the same input ranged over *)
(* by a consumer whose yield returns false on the n-th event.              *)
(***************************************************************************)
HaltInputs ==
    LivePrefixes \cup
    {<<"a", "=", "1", ";", "1", ";", "1">>, <<"a", "=", "b", ":", "1", ";", "c", ":", "1">>,
     <<"a", ",", "b", "=", "1", ",", "^", "c">>, <<"a", "=", "1", ";", "#">>,
     <<"a", "=", "b", ":", "0", "x">>, <<"1", ",", "a", "=", "1", ",", "2">>,
     <<"1", "e", "1">>, <<"0", "x", "1", "p", "1">>, <<",", ",">>, <<"1", ",", ",", "a">>}

InitHalt ==
    /\ input \in HaltInputs
    /\ \E n \in 1..MaxHalt :
           /\ l = Lex(input, n)
           /\ p = Parser(input, ParseDefaults.AllowOrdered, n)
    /\ call = NoCall
    /\ builder = NewBuilder

SpecHalt == InitHalt /\ [][NextLive]_vars

(***************************************************************************)
(* Properties of the scanner (SpecLex).                                    *)
(***************************************************************************)
TerminalTokens == {TokenEOF, TokenError}

\* C1: at every moment of a scan, an EOF or Error token can only be the last
\* token yielded so far (so none is followed by a token of any kind, and no
\* two of them occur), and when the scan has returned, the sequence is not
\* empty and its last token is an EOF or an Error token.
C1_OneTerminalTokenLast ==
    /\ \A i \in 1..Len(l.yielded) :
           l.yielded[i].Typ \in TerminalTokens => i = Len(l.yielded)
    /\ l.returned =>
           /\ Len(l.yielded) >= 1
           /\ l.yielded[Len(l.yielded)].Typ \in TerminalTokens

\* C1: a scan that has returned after several tokens, the last an Error.
C1_Witness ==
    /\ l.returned
    /\ Len(l.yielded) >= 3
    /\ l.yielded[Len(l.yielded)].Typ = TokenError
    /\ l.yielded[1].Typ = TokenNumber

(***************************************************************************)
(* Properties of the parser (Spec).                                        *)
(***************************************************************************)
Finished == p.pc = "done"

\* Every token of Lex(input), and the type of the i-th ("none" past the end).
Tokens(ps) == ps.next.scan.yielded

TokTyp(ps, i) == IF i \in 1..Len(Tokens(ps)) THEN Tokens(ps)[i].Typ ELSE "none"

\* The index in Tokens of the parser's current token.
CurrentIndex(ps) == IF ps.peeked # <<>> THEN ps.next.n - 1 ELSE ps.next.n

HasError(es) == \E i \in 1..Len(es) : es[i].kind = "Error"

Opener(k) == IF k = "ListEnd" THEN "ListStart" ELSE "MapStart"

RECURSIVE OpenAfter(_, _)
\* The brackets left open by the events es read after the open ones, or
\* <<"unmatched">> at the first End event that does not close the most recent
\* open Start event of its kind.
OpenAfter(es, open) ==
    IF es = <<>> THEN open
    ELSE LET k == Head(es).kind
         IN  CASE k \in {"ListStart", "MapStart"} ->
                      OpenAfter(Tail(es), Append(open, k))
               [] k \in {"ListEnd", "MapEnd"} ->
                      IF open # <<>> /\ open[Len(open)] = Opener(k)
                      THEN OpenAfter(Tail(es), SubSeq(open, 1, Len(open) - 1))
                      ELSE <<"unmatched">>
               [] OTHER -> OpenAfter(Tail(es), open)

\* C2: in every prefix of an event stream each End event closes the most
\* recent open Start event of the same kind, and a stream pulled to the end
\* without an Error event leaves nothing open.
C2_BracketsNested ==
    /\ OpenAfter(p.events, <<>>) # <<"unmatched">>
    /\ (Finished /\ ~HasError(p.events)) => OpenAfter(p.events, <<>>) = <<>>

\* C2: a finished error-free parse with a map value inside the top-level map.
C2_Witness ==
    /\ Finished
    /\ ~HasError(p.events)
    /\ Len(p.events) >= 7
    /\ p.events[1].kind = "MapStart"
    /\ p.events[3].kind = "MapStart"
    /\ p.events[Len(p.events)].kind = "MapEnd"

\* C3: an Error event is the last event emitted so far at every moment of a
\* parse (so there is at most one, and nothing follows it), and the parser
\* has called next no more often than it had when it emitted the Error.
C3_ErrorEventLast ==
    \A i \in 1..Len(p.events) :
        p.events[i].kind = "Error" =>
            /\ i = Len(p.events)
            /\ p.pulls = p.pulledAt[i]

\* C3: a finished parse that emitted events and then an Error, with tokens
\* left in the scanner.
C3_Witness ==
    /\ Finished
    /\ Len(p.events) >= 3
    /\ p.events[Len(p.events)].kind = "Error"
    /\ p.next.n < Len(Tokens(p))

ErrorCount(es) == Cardinality({i \in 1..Len(es) : es[i].kind = "Error"})

\* The parse function called for a field has returned true to parseFieldList,
\* which is about to go round its loop.
FieldComplete == p.pc = "parseFieldList" /\ p.hasToken

\* C4: when the scanner's token sequence for the input ends with an Error
\* token, the finished event stream holds exactly one Error event, as its
\* last event.
C4_LexicalErrorReported ==
    (Finished /\ TokTyp(p, Len(Tokens(p))) = TokenError) =>
        /\ ErrorCount(p.events) = 1
        /\ p.events[Len(p.events)].kind = "Error"

\* C5: when a field is complete and the token after it is neither a
\* FieldSeparator nor EOF, the parse ends with an Error event.
C5_StrayTokenIsError ==
    (FieldComplete /\ p.current.Typ \notin {TokenFieldSeparator, TokenEOF}) =>
        HasError(RunParser(p).events)

\* The i-th token is a value that is not the name of an assignment.
BareValueAt(ps, i) ==
    /\ TokTyp(ps, i) \in ValueTokens
    /\ ~(TokTyp(ps, i) = TokenIdentifier /\ TokTyp(ps, i + 1) = TokenAssign)

\* The number of brackets open before the i-th event of es.
Depth(es, i) ==
    Cardinality({k \in 1..(i - 1) : es[k].kind \in {"ListStart", "MapStart"}})
    - Cardinality({k \in 1..(i - 1) : es[k].kind \in {"ListEnd", "MapEnd"}})

\* After the top-level MapStart, every value of the top-level map follows a key.
NoOrderedAfterMapStart(es) ==
    \A m \in 1..Len(es) :
        (es[m].kind = "MapStart" /\ Depth(es, m) = 0) =>
            \A j \in (m + 1)..Len(es) :
                (/\ Depth(es, j) = 1
                 /\ es[j].kind \in {"FieldValue", "ListStart", "MapStart"}) =>
                    es[j - 1].kind = "MapKey"

\* C6: in the Labeled state, when a field is complete and what comes next at
\* the top level is a bare value (the token after the field, or the one after
\* its FieldSeparator) or an empty segment (a second FieldSeparator), the
\* parse ends with the Error event "ordered value not allowed here"; and no
\* value without a key is emitted after the top-level MapStart.
C6_OrderedAfterLabeledIsError ==
    /\ (/\ FieldComplete
        /\ p.state = labeledState
        /\ \/ BareValueAt(p, CurrentIndex(p))
           \/ /\ p.current.Typ = TokenFieldSeparator
              /\ \/ BareValueAt(p, CurrentIndex(p) + 1)
                 \/ TokTyp(p, CurrentIndex(p) + 1) = TokenFieldSeparator) =>
           LET es == RunParser(p).events
           IN  /\ es # <<>>
               /\ es[Len(es)].kind = "Error"
               /\ es[Len(es)].msg = <<"ordered value not allowed here">>
    /\ NoOrderedAfterMapStart(p.events)

\* The events the table of transitions gives for a call of updateState.
Transition(from, to) ==
    CASE from = to -> <<>>
      [] from = startState /\ to = orderedState -> <<ListStartEvent>>
      [] from = startState /\ to = labeledState -> <<MapStartEvent>>
      [] from = orderedState /\ to = labeledState -> <<ListEndEvent, MapStartEvent>>
      [] from = startState /\ to = eofState -> <<>>
      [] from = orderedState /\ to = eofState -> <<ListEndEvent>>
      [] from = labeledState /\ to = eofState -> <<MapEndEvent>>
      [] OTHER -> <<"no such transition">>

\* The step calls updateState: parseField on its way into a field, or
\* parseFieldList after its loop.
UpdateStateCalled ==
    \/ p.pc = "updateStateEOF"
    \/ /\ p.pc = "parseField"
       /\ p'.pc \in {"parseBooleanPrefix", "parseAssignment", "orderedZero",
                     "parseValueContent"}

RECURSIVE TopBrackets(_, _)
\* The kinds of the top-level bracket events of es from the i-th on.
TopBrackets(es, i) ==
    IF i > Len(es) THEN <<>>
    ELSE (IF \/ es[i].kind \in {"ListStart", "MapStart"} /\ Depth(es, i) = 0
             \/ es[i].kind \in {"ListEnd", "MapEnd"} /\ Depth(es, i) = 1
          THEN <<es[i].kind>> ELSE <<>>) \o TopBrackets(es, i + 1)

\* C7: the parser state never decreases; it changes only in a call of
\* updateState, and a call emits exactly the events of the table for its
\* transition (none when the state stays the same); so the top-level
\* brackets of a finished error-free stream are an optional ListStart/ListEnd
\* pair followed by an optional MapStart/MapEnd pair.
C7_StateMovesForward ==
    /\ [][/\ p'.state >= p.state
          /\ UpdateStateCalled =>
                 p'.events = p.events \o Transition(p.state, p'.state)
          /\ ~UpdateStateCalled => p'.state = p.state]_vars
    /\ []((Finished /\ ~HasError(p.events)) =>
             TopBrackets(p.events, 1) \in
                 {<<>>, <<"ListStart", "ListEnd">>, <<"MapStart", "MapEnd">>,
                  <<"ListStart", "ListEnd", "MapStart", "MapEnd">>})

\* C7: a finished error-free parse that went Start, Ordered, Labeled, AtEnd.
C7_Witness ==
    /\ Finished
    /\ ~HasError(p.events)
    /\ p.state = eofState
    /\ TopBrackets(p.events, 1) = <<"ListStart", "ListEnd", "MapStart", "MapEnd">>

\* The value a token stands for, as an event of the given kind.
KeyOf(tok) == MapKeyEvent(valueFromToken(tok))

ValueOf(tok) == ValueEvent(valueFromToken(tok))

RECURSIVE ListItems(_, _)
\* The events of the list elements that start at the i-th token of T: one
\* FieldValue per element, in input order.
ListItems(T, i) ==
    <<ValueOf(T[i])>> \o
        (IF i + 2 <= Len(T) /\ T[i + 1].Typ = TokenListSeparator
         THEN ListItems(T, i + 2) ELSE <<>>)

RECURSIVE MapEntries(_, _)
\* The events of the map entries that start at the i-th token of T: a MapKey
\* and a FieldValue per entry, a ^key or !key entry being key:true or key:false.
MapEntries(T, i) ==
    LET short == T[i].Typ = TokenBooleanPrefix
        entry == IF short
                 THEN <<KeyOf(T[i + 1]),
                        ValueEvent(BooleanValue(FormatBool(T[i].Val = <<"^">>)))>>
                 ELSE <<KeyOf(T[i]), ValueOf(T[i + 2])>>
        after == IF short THEN i + 2 ELSE i + 3
    IN  entry \o (IF after + 1 <= Len(T) /\ T[after].Typ = TokenListSeparator
                  THEN MapEntries(T, after + 1) ELSE <<>>)

\* The events of the right-hand side whose first scalar is the i-th token of
\* T, chosen by the (i+1)-th token alone.
RhsEvents(T, i) ==
    CASE T[i + 1].Typ = TokenPairSeparator ->
             <<MapStartEvent>> \o MapEntries(T, i) \o <<MapEndEvent>>
      [] T[i + 1].Typ = TokenListSeparator ->
             <<ListStartEvent>> \o ListItems(T, i) \o <<ListEndEvent>>
      [] OTHER -> <<ValueOf(T[i])>>

\* The input starts with an assignment whose right-hand side starts with a
\* scalar value.
AssignsScalarFirst(T) ==
    /\ Len(T) >= 4
    /\ T[1].Typ = TokenIdentifier
    /\ T[2].Typ = TokenAssign
    /\ T[3].Typ \in ValueTokens

\* C8: when the input starts name=scalar, the first event of the right-hand
\* side is MapStart (then the scalar as MapKey) if a PairSeparator follows
\* the scalar, ListStart (then the scalar as FieldValue) if a ListSeparator
\* follows it, and the scalar as FieldValue otherwise, followed by no bracket
\* of its own; and in an error-free stream the whole right-hand side is
\* MapStart, the MapKey/FieldValue pairs, MapEnd, or ListStart, one FieldValue
\* per element in input order, ListEnd, or the single FieldValue.
C8_RhsClassifiedByNextToken ==
    LET T == Tokens(p)
        es == p.events
        rhs == RhsEvents(T, 3)
    IN  (Finished /\ AssignsScalarFirst(T)) =>
            /\ Len(es) >= 4
            /\ SubSeq(es, 1, 2) = <<MapStartEvent, KeyOf(T[1])>>
            /\ CASE T[4].Typ = TokenPairSeparator ->
                         SubSeq(es, 3, 4) = <<MapStartEvent, KeyOf(T[3])>>
                  [] T[4].Typ = TokenListSeparator ->
                         SubSeq(es, 3, 4) = <<ListStartEvent, ValueOf(T[3])>>
                  [] OTHER ->
                         /\ es[3] = ValueOf(T[3])
                         /\ es[4].kind \in {"MapKey", "MapEnd", "Error"}
            /\ ~HasError(es) =>
                   /\ Len(es) >= 2 + Len(rhs)
                   /\ SubSeq(es, 3, 2 + Len(rhs)) = rhs

\* C8: a finished error-free parse of an assignment of a map with two entries.
C8_Witness ==
    /\ Finished
    /\ ~HasError(p.events)
    /\ AssignsScalarFirst(Tokens(p))
    /\ Tokens(p)[4].Typ = TokenPairSeparator
    /\ Len(RhsEvents(Tokens(p), 3)) = 6
    /\ SubSeq(p.events, 3, 8) = RhsEvents(Tokens(p), 3)

\* s is the text of an Identifier token.
IsName(s) ==
    /\ s # <<>>
    /\ isLetter(s[1])
    /\ \A i \in 1..Len(s) : isIdentifierContinue(s[i])
    /\ s \notin {FormatBool(TRUE), FormatBool(FALSE), <<"n", "i", "l">>}

\* What comes before a top-level field, and before a later entry of a map value.
FieldContexts == {<<>>, <<"1", ",">>, <<"a", "=", "1", ",">>, <<"^", "a", ",">>}

EntryContexts == {<<"a", "=", "b", ":", "1", ";">>, <<"a", "=", "^", "b", ";">>}

\* The input is ctx, then ^ or !, then a name to its end.
IsPrefixed(ctx) ==
    /\ Len(input) > Len(ctx) + 1
    /\ SubSeq(input, 1, Len(ctx)) = ctx
    /\ input[Len(ctx) + 1] \in {"^", "!"}
    /\ IsName(SubSeq(input, Len(ctx) + 2, Len(input)))

\* The input with its prefixed name written out with the separator sep.
WrittenOut(ctx, sep) ==
    ctx \o SubSeq(input, Len(ctx) + 2, Len(input)) \o <<sep>>
        \o FormatBool(input[Len(ctx) + 1] = "^")

\* C9: the finished event stream of an input that ends with ^name (or !name)
\* as a top-level field is the event stream of the input with name=true (or
\* name=false) in its place, and as a later entry of a map value that of the
\* input with name:true (or name:false) in its place; as the first entry of
\* a map value, a=^name gives the event stream of a=name:true.
C9_PrefixIsBooleanAssignment ==
    Finished =>
        /\ \A ctx \in FieldContexts :
               IsPrefixed(ctx) =>
                   p.events = Parse(WrittenOut(ctx, "="), p.config.AllowOrdered, 0)
        /\ \A ctx \in EntryContexts \cup {<<"a", "=">>} :
               IsPrefixed(ctx) =>
                   p.events = Parse(WrittenOut(ctx, ":"), p.config.AllowOrdered, 0)

\* C9: a finished error-free parse of !name as a later entry of a map value.
C9_Witness ==
    /\ Finished
    /\ ~HasError(p.events)
    /\ \E ctx \in EntryContexts : IsPrefixed(ctx) /\ input[Len(ctx) + 1] = "!"
    /\ p.events[Len(p.events) - 2].value.raw = FormatBool(FALSE)

\* C10: the finished event stream of an input that is empty or holds only
\* whitespace is empty.
C10_BlankInputNoEvents ==
    (Finished /\ \A i \in 1..Len(input) : isSpace(input[i])) => p.events = <<>>

\* C10: a finished parse of an input of several whitespace characters.
C10_Witness ==
    /\ Finished
    /\ Len(input) >= 4
    /\ \A i \in 1..Len(input) : isSpace(input[i])
    /\ p.events = <<>>

\* The tokens are bare values and FieldSeparators up to the EOF, every value
\* followed by a FieldSeparator or the EOF.
OrderedOnly(T) ==
    /\ Len(T) >= 2
    /\ T[Len(T)].Typ = TokenEOF
    /\ \A i \in 1..(Len(T) - 1) :
           \/ T[i].Typ = TokenFieldSeparator
           \/ /\ T[i].Typ \in ValueTokens
              /\ T[i + 1].Typ \in {TokenFieldSeparator, TokenEOF}

RECURSIVE OrderedEvents(_, _)
\* The events of the ordered fields from the i-th token of T on: a
\* FieldSeparator in the place of a field is a Zero value, a value is itself
\* and takes the FieldSeparator that follows it.
OrderedEvents(T, i) ==
    CASE T[i].Typ = TokenEOF -> <<>>
      [] T[i].Typ = TokenFieldSeparator ->
             <<ValueEvent(ZeroValue)>> \o OrderedEvents(T, i + 1)
      [] OTHER ->
             <<ValueOf(T[i])>> \o
                 (IF T[i + 1].Typ = TokenFieldSeparator
                  THEN OrderedEvents(T, i + 2) ELSE <<>>)

EmptyListElement ==
    /\ p.pc = "parseListLoop"
    /\ p.hasToken
    /\ p.current.Typ = TokenListSeparator
    /\ TokTyp(p, CurrentIndex(p) + 1) \in
           {TokenListSeparator, TokenFieldSeparator, TokenEOF}

\* C12 as stated: an empty list element yields a FieldValue carrying the Zero
\* value and is not rejected.
C12_EmptyListElementIsZero ==
    EmptyListElement =>
        /\ ParserStep(p).events = Append(p.events, ValueEvent(ZeroValue))
        /\ ~HasError(RunParser(p).events)

\* C12, amended: an empty list element is rejected; the parser emits no Zero
\* value for it, but the Error event "expected value, got <kind>" at the
\* token that follows the ListSeparator, and returns.
C12_EmptyListElementIsError ==
    EmptyListElement =>
        LET tok == Tokens(p)[CurrentIndex(p) + 1]
            q == ParserStep(p)
        IN  /\ q.events = Append(p.events,
                   ErrorEvent(tok.Pos, <<"expected value, got ", tok.Typ>>))
            /\ q.pc = "return"
            /\ RunParser(p).events = q.events

\* C12: the finished parse of a=1;; (a list whose second element is empty).
C12_Witness ==
    /\ Finished
    /\ input = <<"a", "=", "1", ";", ";">>
    /\ Len(p.events) = 5
    /\ p.events[3] = ListStartEvent
    /\ p.events[5].msg = <<"expected value, got ", TokenListSeparator>>

\* parseAssignment is called on name= with a FieldSeparator or the EOF right
\* after the Assign token.
EmptyAssignment ==
    /\ p.pc = "parseAssignment"
    /\ TokTyp(p, CurrentIndex(p) + 2) \in {TokenFieldSeparator, TokenEOF}

OrderedAhead ==
    \/ /\ p.pc = "parseFieldList"
       /\ p.next.n = 0
       /\ BareValueAt(p, 1) \/ TokTyp(p, 1) = TokenFieldSeparator
    \/ /\ FieldComplete
       /\ \/ BareValueAt(p, CurrentIndex(p))
          \/ /\ p.current.Typ = TokenFieldSeparator
             /\ \/ BareValueAt(p, CurrentIndex(p) + 1)
                \/ TokTyp(p, CurrentIndex(p) + 1) = TokenFieldSeparator

\* C14: the default options allow ordered values; with AllowOrdered false,
\* no top-level ListStart is emitted, and whenever a bare value or an empty
\* segment comes next at the top level, in any parser state, the parse ends
\* with the Error event "ordered value not allowed here".
C14_OrderedDisabledIsError ==
    /\ ParseDefaults.AllowOrdered
    /\ ~p.config.AllowOrdered =>
           /\ \A i \in 1..Len(p.events) :
                  p.events[i].kind = "ListStart" => Depth(p.events, i) >= 1
           /\ OrderedAhead =>
                  LET es == RunParser(p).events
                  IN  /\ es # <<>>
                      /\ es[Len(es)].kind = "Error"
                      /\ es[Len(es)].msg = <<"ordered value not allowed here">>


\* The number of resumptions of the scanner behind n calls of next().
Resumed(ps, n) == IF n <= Len(Tokens(ps)) + 1 THEN n ELSE Len(Tokens(ps)) + 1

\* The characters the scanner has read after n calls of next().
ReadsAfter(ps, n) == LexUntil(Lex(ps.next.scan.input, 0), Resumed(ps, n)).reads

\* The calls of next() made when yield returned false.
PullsAtStop(ps) == ps.pulledAt[Len(ps.events)]

\* C15: once yield has returned false to the parser, the parser pulls no
\* further token from the scanner and the scanner reads no further character:
\* the calls of next() and the characters read stay what they were at the
\* event on which the consumer stopped.
C15_NoPullAfterStop ==
    p.done =>
        /\ p.pulls = PullsAtStop(p)
        /\ ReadsAfter(p, p.pulls) = ReadsAfter(p, PullsAtStop(p))


\* The tokens the parser has received from next().
Received(ps) ==
    IF ps.next.n <= Len(Tokens(ps)) THEN ps.next.n ELSE Len(Tokens(ps))

\* The scanner has decoded at most the code point at its position.
LookOK(lx) ==
    lx.seen <= lx.pos.Offset
               + (IF lx.pos.Offset >= ByteLen(lx.input) THEN 0
                  ELSE Width(lx.input[RuneIndexAt(lx.input, lx.pos.Offset)]))

\* LookOK after every state function up to the n-th resumption's yield.
RECURSIVE AllLookOK(_, _)
AllLookOK(lx, n) ==
    /\ LookOK(lx)
    /\ \/ Len(lx.yielded) >= n
       \/ ~running(lx)
       \/ AllLookOK(stateFn(lx), n)

\* C16: at every point of a parse the parser holds at most one received token
\* beyond its current token, namely the one in the lookahead slot p.peeked,
\* and the scanner has decoded at most one code point beyond its position.
C16_SingleLookahead ==
    /\ Len(p.peeked) <= 1
    /\ IF Received(p) = 0
       THEN p.peeked = <<>> /\ ~p.hasToken
       ELSE \E i \in 1..Received(p) :
                /\ Tokens(p)[i] = p.current
                /\ Received(p) - i \in {0, 1}
                /\ (Received(p) - i = 1) <=> (p.peeked # <<>>)
                /\ p.peeked # <<>> => p.peeked[1] = Tokens(p)[Received(p)]
    /\ AllLookOK(Lex(input, 0), p.next.n)

\* A token sits in the lookahead slot, and the scanner had looked one code
\* point beyond its position when it yielded the first token.
C16_Witness ==
    /\ p.peeked # <<>>
    /\ p.hasToken
    /\ Received(p) < Len(Tokens(p))
    /\ LET lx == LexUntil(Lex(input, 0), 1) IN lx.seen > lx.pos.Offset


\* The token kinds a top-level field may start with.
FieldStarts == {TokenBooleanPrefix, TokenFieldSeparator} \cup ValueTokens

\* C17: when the token a top-level field starts with is not a BooleanPrefix,
\* an Identifier, a scalar value or a FieldSeparator, the parse ends there
\* with the Error event "expected field prefix, identifier, or value, got
\* <kind>" at that token, <kind> being the token's kind.
C17_BadFieldStartIsError ==
    (p.pc = "parseField" /\ p.current.Typ \notin FieldStarts) =>
        RunParser(p).events =
            Append(p.events,
                   ErrorEvent(p.current.Pos,
                              <<"expected field prefix, identifier, or value, got ",
                                p.current.Typ>>))

\* "^a,=": the second field starts with Assign.
C17_Witness ==
    /\ Finished
    /\ Len(Tokens(p)) >= 4
    /\ TokTyp(p, 3) = TokenFieldSeparator
    /\ TokTyp(p, 4) = TokenAssign
    /\ Len(p.events) = 4
    /\ p.events[4] = ErrorEvent(Tokens(p)[4].Pos,
                                <<"expected field prefix, identifier, or value, got ",
                                  TokenAssign>>)


\* The token k places after the parser's current token.
TokenAhead(ps, k) == Tokens(ps)[CurrentIndex(ps) + k]

\* The token standing where the parser requires a scalar value next, if it is
\* at such a position: the first token of a non-empty right-hand side of `=`,
\* a list element after `;`, a map key after `;`, a map value after `:`.
\* entry tells whether the position is one where a map entry may start.
RequiredValue(ps) ==
    IF ps.pc = "parseValueContent"
    THEN {[tok |-> ps.current, entry |-> TRUE]}
    ELSE IF ps.pc = "parseListLoop" /\ ps.hasToken
            /\ ps.current.Typ = TokenListSeparator
    THEN {[tok |-> TokenAhead(ps, 1), entry |-> FALSE]}
    ELSE IF ps.pc = "parseDictLoop" /\ ps.current.Typ = TokenListSeparator
    THEN {[tok |-> TokenAhead(ps, 1), entry |-> TRUE]}
    ELSE IF ps.pc = "parseDictPair" /\ ps.current.Typ \in ValueTokens
            /\ TokenAhead(ps, 1).Typ = TokenPairSeparator
    THEN {[tok |-> TokenAhead(ps, 2), entry |-> FALSE]}
    ELSE {}

\* The parse ends with the Error event "expected value, got <kind>" at tok.
EndsExpectedValue(ps, tok) ==
    LET es == RunParser(ps).events
    IN  /\ es # <<>>
        /\ es[Len(es)] = ErrorEvent(tok.Pos, <<"expected value, got ", tok.Typ>>)
        /\ \A i \in 1..(Len(es) - 1) : es[i].kind # "Error"

\* C18: at every position where a scalar value is required (the non-empty
\* right-hand side of `=`, a list element after `;`, a map key after `;`, a
\* map value after `:`), a token that is not an Identifier, Number, String,
\* True, False or Nil ends the parse with the Error event "expected value,
\* got <kind>"; the EOF token there gives "expected value, got EOF".
C18_NonValueIsError ==
    \A r \in RequiredValue(p) :
        r.tok.Typ \notin ValueTokens => EndsExpectedValue(p, r.tok)

\* C18, amended: as above, except that a BooleanPrefix at the start of the
\* right-hand side of `=` or at a map key after `;` is no error there: it
\* starts a boolean-prefix map entry.  Every other token that is not a value
\* token, the EOF token included, ends the parse with "expected value, got
\* <kind>".
C18_NonValueNonEntryIsError ==
    \A r \in RequiredValue(p) :
        /\ r.tok.Typ \notin ValueTokens
        /\ ~(r.entry /\ r.tok.Typ = TokenBooleanPrefix)
        => EndsExpectedValue(p, r.tok)

\* "a=b:1;": the map key after `;` is the EOF token, and the parse has ended
\* with "expected value, got EOF".
C18_Witness ==
    /\ Finished
    /\ Len(Tokens(p)) = 7
    /\ TokTyp(p, 4) = TokenPairSeparator
    /\ TokTyp(p, 6) = TokenListSeparator
    /\ TokTyp(p, 7) = TokenEOF
    /\ p.events # <<>>
    /\ p.events[Len(p.events)] =
           ErrorEvent(Tokens(p)[7].Pos, <<"expected value, got ", TokenEOF>>)


\* The token kind the parser requires next and the token standing there, if
\* it is at such a position: the token after a BooleanPrefix, the token after
\* the key of a map entry that is not a boolean-prefix entry.
RequiredKind(ps) ==
    IF ps.pc = "parseBooleanPrefix"
    THEN {[typ |-> TokenIdentifier, tok |-> TokenAhead(ps, 1)]}
    ELSE IF ps.pc = "parseDictPair" /\ ps.current.Typ \in ValueTokens
    THEN {[typ |-> TokenPairSeparator, tok |-> TokenAhead(ps, 1)]}
    ELSE {}

\* C19: where one specific token kind is required, any other token ends the
\* parse with the Error event "expected <Required>, got <kind>" at that
\* token: a BooleanPrefix must be followed by an Identifier, and in a map
\* value the key of an entry that is not a boolean-prefix entry must be
\* followed by a PairSeparator.
C19_OtherKindIsError ==
    \A r \in RequiredKind(p) :
        r.tok.Typ # r.typ =>
            LET es == RunParser(p).events
            IN  /\ es # <<>>
                /\ es[Len(es)] = ErrorEvent(r.tok.Pos,
                                            <<"expected ", r.typ, ", got ", r.tok.Typ>>)
                /\ \A i \in 1..(Len(es) - 1) : es[i].kind # "Error"

\* "a=b:1;c": the second map entry has a key and no `:`, and the parse has
\* ended with "expected PairSeparator, got EOF".
C19_Witness ==
    /\ Finished
    /\ Len(Tokens(p)) = 8
    /\ TokTyp(p, 6) = TokenListSeparator
    /\ TokTyp(p, 7) = TokenIdentifier
    /\ TokTyp(p, 8) = TokenEOF
    /\ p.events # <<>>
    /\ p.events[Len(p.events)] =
           ErrorEvent(Tokens(p)[8].Pos,
                      <<"expected ", TokenPairSeparator, ", got ", TokenEOF>>)


\* T is value (`;` value)+ EOF: one ordered field that is a list.
IsOrderedList(T) ==
    /\ Len(T) >= 4
    /\ Len(T) % 2 = 0
    /\ T[Len(T)].Typ = TokenEOF
    /\ \A i \in 1..(Len(T) - 1) :
           IF i % 2 = 1 THEN T[i].Typ \in ValueTokens
           ELSE T[i].Typ = TokenListSeparator

\* T is key `:` value (`;` key `:` value)* EOF: one ordered field that is a map.
IsOrderedMap(T) ==
    /\ Len(T) >= 4
    /\ Len(T) % 4 = 0
    /\ T[Len(T)].Typ = TokenEOF
    /\ \A i \in 1..(Len(T) - 1) :
           CASE i % 4 = 2 -> T[i].Typ = TokenPairSeparator
             [] i % 4 = 0 -> T[i].Typ = TokenListSeparator
             [] OTHER -> T[i].Typ \in ValueTokens

\* The FieldValue events of the elements of an ordered list field.
ElementsOf(T) == [j \in 1..(Len(T) \div 2) |-> ValueOf(T[2 * j - 1])]

\* The MapKey and FieldValue events of the pairs of an ordered map field.
PairsOf(T) ==
    [j \in 1..(Len(T) \div 2) |->
        IF j % 2 = 1 THEN KeyOf(T[2 * j - 1]) ELSE ValueOf(T[2 * j - 1])]

\* C20: with ordered values allowed, a document that is one ordered field
\* made of values separated by `;` yields ListStart, ListStart, the values,
\* ListEnd, ListEnd, and one made of key:value pairs separated by `;` yields
\* ListStart, MapStart, the MapKey/FieldValue pairs, MapEnd, ListEnd: the
\* brackets of the field are nested in the top-level ordered list.
C20_OrderedFieldMayNest ==
    (Finished /\ p.config.AllowOrdered) =>
        /\ IsOrderedList(Tokens(p)) =>
               p.events = <<ListStartEvent, ListStartEvent>> \o ElementsOf(Tokens(p))
                              \o <<ListEndEvent, ListEndEvent>>
        /\ IsOrderedMap(Tokens(p)) =>
               p.events = <<ListStartEvent, MapStartEvent>> \o PairsOf(Tokens(p))
                              \o <<MapEndEvent, ListEndEvent>>

\* "1;a" parsed to the end with ordered values allowed: six events.
C20_Witness ==
    /\ Finished
    /\ p.config.AllowOrdered
    /\ IsOrderedList(Tokens(p))
    /\ Len(p.events) = 6
    /\ p.events[2] = ListStartEvent
    /\ p.events[5] = ListEndEvent


RECURSIVE BytesOf(_, _)
\* The number of bytes of the first k runes of s.
BytesOf(s, k) == IF k = 0 THEN 0 ELSE BytesOf(s, k - 1) + Width(s[k])

\* The runes of the input that token tok covers, as indices into the input:
\* those whose first byte lies in [Offset, Offset + len(Val)).
Covered(in, tok) ==
    IF tok.Typ \in {TokenError, TokenEOF} THEN {}
    ELSE {k \in 1..Len(in) :
              /\ BytesOf(in, k - 1) >= tok.Pos.Offset
              /\ BytesOf(in, k - 1) < tok.Pos.Offset + BytesOf(tok.Val, Len(tok.Val))}

\* The raw text of tok is the input slice at its offset, of its length.
IsInputSlice(in, tok) ==
    \E k \in 0..Len(in) :
        /\ BytesOf(in, k) = tok.Pos.Offset
        /\ k + Len(tok.Val) <= Len(in)
        /\ \A j \in 1..Len(tok.Val) : in[k + j] = tok.Val[j]

\* C21: the raw text of every token other than Error and EOF is exactly the
\* input slice that starts at the token's byte offset and has the raw text's
\* length; tokens come in strictly increasing offset order and do not
\* overlap; and once the scan has ended with EOF, every input byte that lies
\* in no token is whitespace.
C21_RawTextIsInputSlice ==
    LET T == l.yielded
    IN  /\ \A i \in 1..Len(T) :
               T[i].Typ \notin {TokenError, TokenEOF} =>
                   /\ T[i].Val # <<>>
                   /\ IsInputSlice(input, T[i])
        /\ \A i \in 1..(Len(T) - 1) :
               /\ T[i].Pos.Offset < T[i + 1].Pos.Offset
               /\ T[i].Pos.Offset + BytesOf(T[i].Val, Len(T[i].Val))
                      <= T[i + 1].Pos.Offset
        /\ (T # <<>> /\ T[Len(T)].Typ = TokenEOF) =>
               \A k \in 1..Len(input) :
                   (\A i \in 1..Len(T) : k \notin Covered(input, T[i])) =>
                       input[k] \in {" ", "\t", "\n", "\r"}

\* A scan that has ended with EOF, with a token of a two-byte letter and a
\* blank in the input.
C21_Witness ==
    /\ l.returned
    /\ l.yielded[Len(l.yielded)].Typ = TokenEOF
    /\ \E i \in 1..Len(l.yielded) :
           /\ l.yielded[i].Typ = TokenIdentifier
           /\ BytesOf(l.yielded[i].Val, Len(l.yielded[i].Val)) > Len(l.yielded[i].Val)
    /\ \E k \in 1..Len(input) : input[k] = " "


\* The rune at index i of s, eof beyond its end.
RuneAt(s, i) == IF i \in 1..Len(s) THEN s[i] ELSE eof

RECURSIVE SkipWhile(_, _, _)
\* The first index from i on whose rune is not in S.
SkipWhile(s, i, S) ==
    IF RuneAt(s, i) \in S THEN SkipWhile(s, i + 1, S) ELSE i

\* The index after an optional sign at index i.
AfterSign(s, i) == IF RuneAt(s, i) \in {"+", "-"} THEN i + 1 ELSE i

Digits == {"0", "1", "2", "3", "4", "5", "6", "7", "8", "9"}

HexDigits == Digits \cup LowerHexLetters \cup UpperHexLetters

\* The index after digits, an optional `.` and more digits, from index i on,
\* the digits being those of D or `_`.
AfterMantissa(s, i, D) ==
    LET b == SkipWhile(s, i, D \cup {"_"})
    IN  IF RuneAt(s, b) = "." THEN SkipWhile(s, b + 1, D \cup {"_"}) ELSE b

\* The malformation, if any, of the number literal that starts at index i of
\* s (a sign or a digit), read off the literal's text: a base prefix without
\* a digit of its base, or an exponent marker without a digit after its
\* optional sign.  <<>> when there is none.
Malformed(s, i) ==
    LET a == AfterSign(s, i)
        zero == RuneAt(s, a) = "0"
        mark == RuneAt(s, a + 1)
        hx == AfterMantissa(s, a + 2, HexDigits)
        dx == AfterMantissa(s, a, Digits)
    IN  IF zero /\ mark \in {"x", "X"}
        THEN IF RuneAt(s, a + 2) \notin HexDigits THEN <<"expected hex digit">>
             ELSE IF /\ RuneAt(s, hx) \in {"p", "P"}
                     /\ RuneAt(s, AfterSign(s, hx + 1)) \notin Digits
                  THEN <<"expected digit after hex exponent">>
                  ELSE <<>>
        ELSE IF zero /\ mark \in {"o", "O"}
        THEN IF RuneAt(s, a + 2) \notin {"0", "1", "2", "3", "4", "5", "6", "7"}
             THEN <<"expected octal digit">> ELSE <<>>
        ELSE IF zero /\ mark \in {"b", "B"}
        THEN IF RuneAt(s, a + 2) \notin {"0", "1"}
             THEN <<"expected binary digit">> ELSE <<>>
        ELSE IF /\ RuneAt(s, a) \in Digits
                /\ RuneAt(s, dx) \in {"e", "E"}
                /\ RuneAt(s, AfterSign(s, dx + 1)) \notin Digits
        THEN <<"expected digit after exponent">>
        ELSE <<>>

\* The scanner is at the start of a number literal.
AtNumber == running(l) /\ l.state = "lexNumber"

\* C22: a number literal with a base prefix 0x, 0o or 0b (either case) not
\* immediately followed by a digit of that base ends the scan with the Error
\* token "expected hex digit", "expected octal digit" or "expected binary
\* digit"; one with an exponent marker e/E not followed, after an optional
\* sign, by a decimal digit ends it with "expected digit after exponent",
\* and a hex exponent marker p/P in the same situation with "expected digit
\* after hex exponent".
C22_MalformedNumberIsError ==
    LET msg == Malformed(input, RuneIndexAt(input, l.pos.Offset))
        T == runPattern(l).yielded
    IN  (AtNumber /\ msg # <<>>) =>
            /\ T # <<>>
            /\ T[Len(T)] = Token(TokenError, l.pos, msg)


RECURSIVE Backslashes(_, _, _)
\* The number of consecutive backslashes that end right before index j of s,
\* none of them at or before index i.
Backslashes(s, i, j) ==
    IF j - 1 > i /\ s[j - 1] = "\\" THEN 1 + Backslashes(s, i, j - 1) ELSE 0

\* The indices after the opening quote at index i of s that hold the same
\* quote character with no escaping backslash before it.
Closers(s, i) ==
    {j \in (i + 1)..Len(s) : s[j] = s[i] /\ Backslashes(s, i, j) % 2 = 0}

Least(S) == CHOOSE j \in S : \A k \in S : j <= k

\* The scanner is at the opening quote of a string.
AtString == running(l) /\ l.state = "lexString"

\* C23: a String token starts at a quote character and ends at the next
\* occurrence of the same quote character that no escaping backslash
\* precedes; its raw text keeps the quotes and the backslashes; when there
\* is no such occurrence the scan ends with the Error token "unterminated
\* escape sequence" if the input ends right after an escaping backslash and
\* with "unterminated string" otherwise.
C23_StringEndsAtUnescapedQuote ==
    AtString =>
        LET i == RuneIndexAt(input, l.pos.Offset)
            n == Len(l.yielded) + 1
            T == runPattern(l).yielded
        IN  /\ Len(T) >= n
            /\ T[n] =
                 IF Closers(input, i) # {}
                 THEN Token(TokenString, l.pos,
                            SubSeq(input, i, Least(Closers(input, i))))
                 ELSE IF Backslashes(input, i, Len(input) + 1) % 2 = 1
                 THEN Token(TokenError, l.pos, <<"unterminated escape sequence">>)
                 ELSE Token(TokenError, l.pos, <<"unterminated string">>)

\* The scan of "\"" (quote, backslash, quote, quote) has yielded the four
\* characters as one String token: the escaped quote did not close it.
C23_Witness ==
    /\ l.returned
    /\ l.yielded # <<>>
    /\ l.yielded[1].Typ = TokenString
    /\ l.yielded[1].Val = <<"\"", "\\", "\"", "\"">>


Letters == LowerHexLetters \cup UpperHexLetters \cup OtherLetters

\* The scanner is at the top state with a letter ahead.
AtLetter ==
    /\ running(l)
    /\ l.state = "lexTop"
    /\ RuneAt(input, RuneIndexAt(input, l.pos.Offset)) \in Letters

\* The kind of the token whose text is the run w.
KindOfRun(w) ==
    CASE w = <<"t", "r", "u", "e">> -> TokenTrue
      [] w = <<"f", "a", "l", "s", "e">> -> TokenFalse
      [] w = <<"n", "i", "l">> -> TokenNil
      [] OTHER -> TokenIdentifier

\* C24: a run that starts with a letter and goes on with letters, digits,
\* hyphens and underscores is scanned as one token, which is True, False or
\* Nil exactly when the whole run is `true`, `false` or `nil` and Identifier
\* in every other case.
C24_RunIsKeywordOrIdentifier ==
    AtLetter =>
        LET i == RuneIndexAt(input, l.pos.Offset)
            j == SkipWhile(input, i + 1, Letters \cup Digits \cup {"-", "_"})
            w == SubSeq(input, i, j - 1)
            n == Len(l.yielded) + 1
            T == runPattern(l).yielded
        IN  /\ Len(T) >= n
            /\ T[n] = Token(KindOfRun(w), l.pos, w)

\* "true" followed by one more character of the run has been scanned as an
\* Identifier of five characters.
C24_Witness ==
    /\ l.returned
    /\ l.yielded # <<>>
    /\ l.yielded[1].Typ = TokenIdentifier
    /\ Len(l.yielded[1].Val) = 5
    /\ SubSeq(l.yielded[1].Val, 1, 4) = <<"t", "r", "u", "e">>


\* The index after the non-prefixed number literal that starts at index i of
\* s with an optional sign and a digit: the digits, an optional `.` and
\* digits, and an exponent when its marker has a digit after its optional
\* sign.
AfterDecimal(s, i) ==
    LET c == AfterMantissa(s, AfterSign(s, i), Digits)
        d == AfterSign(s, c + 1)
    IN  IF RuneAt(s, c) \in {"e", "E"} /\ RuneAt(s, d) \in Digits
        THEN SkipWhile(s, d, Digits \cup {"_"})
        ELSE c

\* A non-prefixed number literal starts at index i of s.
IsDecimal(s, i) ==
    LET a == AfterSign(s, i)
    IN  /\ RuneAt(s, a) \in Digits
        /\ ~(RuneAt(s, a) = "0" /\ RuneAt(s, a + 1) \in {"x", "X", "o", "O", "b", "B"})

\* C25: every non-prefixed number, whatever its integer digits are (the
\* single digit 0 included), is scanned with its optional fractional part
\* and its optional exponent as one Number token.
C25_DecimalIsOneToken ==
    LET i == RuneIndexAt(input, l.pos.Offset)
        n == Len(l.yielded) + 1
        T == runPattern(l).yielded
    IN  (AtNumber /\ IsDecimal(input, i) /\ Malformed(input, i) = <<>>) =>
            /\ Len(T) >= n
            /\ T[n] = Token(TokenNumber, l.pos,
                            SubSeq(input, i, AfterDecimal(input, i) - 1))


\* The number of runes before the span of the i-th token of T: the runes up
\* to the end of the token before it, and the blanks that follow them.
SpanStart(in, T, i) ==
    LET before == IF i = 1 THEN 0
                  ELSE (T[i - 1].Pos.Column - 1) + Len(T[i - 1].Val)
    IN  SkipWhile(in, before + 1, {" ", "\t", "\n", "\r"}) - 1

\* C26: every token, Error and EOF included, carries the position of the
\* start of the span being scanned when it was produced: Offset is the
\* number of input bytes before the span and Column is 1 plus the number of
\* code points before it, line breaks counted like any code point; so an
\* Error token is positioned at the start of the malformed token, and EOF at
\* the end of the input.
C26_PositionIsSpanStart ==
    LET T == l.yielded
    IN  \A i \in 1..Len(T) :
            /\ T[i].Pos = Position(BytesOf(input, SpanStart(input, T, i)),
                                   SpanStart(input, T, i) + 1)
            /\ T[i].Typ = TokenEOF =>
                   T[i].Pos = Position(BytesOf(input, Len(input)), Len(input) + 1)

\* After a two-byte letter and a line break, a string of two characters that
\* the end of the input leaves open has given an Error token at its opening
\* quote: offset 3, column 3.
C26_Witness ==
    /\ Len(input) = 4
    /\ input[2] = "\n"
    /\ Len(l.yielded) = 2
    /\ l.yielded[2].Typ = TokenError
    /\ l.yielded[2].Pos = Position(3, 3)
    /\ l.yielded[2].Val = <<"unterminated string">>


(***************************************************************************)
(* Values and their conversions (SpecValue).                               *)
(***************************************************************************)
FalseText == <<"f", "a", "l", "s", "e">>

\* The float conversion of the value succeeds and gives 0.
FloatIsZero(v) == ToFloat(v).ok /\ ToFloat(v).val.m = 0

\* The text between the quotes of a String value's raw text.
Quoted(v) == SubSeq(v.raw, 2, Len(v.raw) - 1)

\* The answer IsZero gives for each variant, with the given answer for Nil;
\* Strings with nothing between the quotes are left open.
IsZeroAsStated(v, forNil, r) ==
    CASE v.Type = "Zero" -> r = TRUE
      [] v.Type = "Boolean" -> r = (v.raw = FalseText)
      [] v.Type = "Number" -> r = FloatIsZero(v)
      [] v.Type = "Nil" -> r = forNil
      [] v.Type = "Identifier" -> r = FALSE
      [] v.Type = "String" -> (Quoted(v) # <<>> => r = FALSE)
      [] OTHER -> FALSE

\* C27 as stated: IsZero is true for the Zero value, true for a Boolean
\* exactly when its raw text is "false", true for a Number exactly when its
\* float conversion succeeds and equals 0, and false for Nil, for every
\* Identifier and for every non-empty String.
C27_IsZeroFalseForNil ==
    call.fn = "IsZero" => IsZeroAsStated(call.value, FALSE, call.res.val)

\* C27 (amended): IsZero is true for the Zero value and for Nil, true for a
\* Boolean exactly when its raw text is "false", true for a Number exactly
\* when its float conversion succeeds and equals 0, and false for every
\* Identifier and for every non-empty String.
C27_IsZeroTrueForNil ==
    call.fn = "IsZero" => IsZeroAsStated(call.value, TRUE, call.res.val)

\* IsZero was called on the value of `nil` and answered true.
C27_Witness ==
    /\ input = <<"n", "i", "l">>
    /\ call.fn = "IsZero"
    /\ call.value = NilValue
    /\ call.res = Ok(TRUE)


Conversions == {"ToString", "ToFloat", "ToInt", "ToUint", "ToBool"}

\* The variants a conversion is supported by; ToString with or without Number.
Supporting(fn, numberToString) ==
    CASE fn = "ToString" ->
             {"String", "Identifier"} \cup (IF numberToString THEN {"Number"} ELSE {})
      [] fn \in {"ToFloat", "ToInt", "ToUint"} -> {"Number"}
      [] fn = "ToBool" -> {"Boolean"}
      [] OTHER -> {}

\* The call of a conversion ended as the list of supporting variants says:
\* not-convertible for every other variant and never for a supporting one,
\* the raw text for ToString of an Identifier or a Number, and the text
\* between the quotes for ToString of a String without escapes.
ConvertedAsStated(numberToString) ==
    LET v == call.value
        r == call.res
    IN  /\ v.Type \notin Supporting(call.fn, numberToString)
           => ~r.ok /\ r.err = "not convertible"
        /\ v.Type \in Supporting(call.fn, numberToString) => r.err # "not convertible"
        /\ call.fn = "ToString" /\ v.Type \in {"Identifier", "Number"}
               /\ v.Type \in Supporting(call.fn, numberToString)
           => r.ok /\ r.val = v.raw
        /\ call.fn = "ToString" /\ v.Type = "String" /\ r.ok
               /\ (\A i \in 1..Len(v.raw) : v.raw[i] # "\\")
           => r.val = Quoted(v)

\* C28 as stated: the conversion functions succeed only for the variants that
\* support them and fail with a not-convertible error for every other
\* variant: ToString is supported by String, Identifier and Number, ToInt,
\* ToUint and ToFloat only by Number, ToBool only by Boolean, and Zero and
\* Nil support no conversion.
C28_NumberHasToString ==
    call.fn \in Conversions => ConvertedAsStated(TRUE)

\* C28 (amended): as stated, except that ToString is supported by String and
\* Identifier only and fails with the not-convertible error for a Number.
C28_NumberHasNoToString ==
    call.fn \in Conversions => ConvertedAsStated(FALSE)

\* ToString was called on the Number 17 and failed with not-convertible.
C28_Witness ==
    /\ input = <<"1", "7">>
    /\ call.value.Type = "Number"
    /\ call.fn = "ToString"
    /\ call.res = NotConvertible


\* The float f is the integer n.
FloatIsInt(f, n) ==
    /\ f.e10 = 0
    /\ f.e2 = 0
    /\ (IF f.neg THEN 0 - f.m ELSE f.m) = n

\* C29: for every Number token the scanner can produce, whenever both an
\* integer conversion (ToInt or ToUint) and the float conversion of its raw
\* text succeed, they give the same numeric value; this includes decimal
\* literals with leading zeros and literals with `_` separators.
C29_IntAndFloatAgree ==
    /\ call.fn \in {"ToInt", "ToUint"}
    /\ call.value.Type = "Number"
    /\ call.res.ok
    /\ ToFloat(call.value).ok
    => FloatIsInt(ToFloat(call.value).val, call.res.val)

\* The same for the literals that do not begin, after a sign, with a 0
\* followed by a digit or `_` (a leading zero of a decimal literal).
C29_AgreeWithoutLeadingZero ==
    /\ call.fn \in {"ToInt", "ToUint"}
    /\ call.value.Type = "Number"
    /\ call.res.ok
    /\ ToFloat(call.value).ok
    /\ LET s == call.value.raw
           i == AfterSign(s, 1)
       IN  ~(i < Len(s) /\ s[i] = "0" /\ (isDigit(s[i + 1]) \/ s[i + 1] = "_"))
    => FloatIsInt(ToFloat(call.value).val, call.res.val)

\* ToInt of the hexadecimal literal 0x17 gave 23, as its float conversion does.
C29_HexAgrees ==
    /\ input = <<"0", "x", "1", "7">>
    /\ call.fn = "ToInt"
    /\ call.res = Ok(23)
    /\ ToFloat(call.value) = Ok(Float(FALSE, 23, 0, 0))


(***************************************************************************)
(* The quoting rule (SpecQuote).                                           *)
(***************************************************************************)
QuotedCharacters == {" ", ",", ";", ":", "=", "\\"}

Keywords == {<<"t", "r", "u", "e">>, <<"f", "a", "l", "s", "e">>, <<"n", "i", "l">>}

\* C30: NeedsQuoting(s) is true exactly when s is empty, or s contains at
\* least one of the characters space , ; : = backslash, or s is exactly one
\* of the keywords true, false, nil; it is false for every other string.
C30_NeedsQuotingExactly ==
    call.fn = "NeedsQuoting" =>
        (call.res.val <=> \/ Len(input) = 0
                          \/ {i \in DOMAIN input : input[i] \in QuotedCharacters} # {}
                          \/ input \in Keywords)

\* NeedsQuoting answered true for the keyword nil and, in another run, false
\* for the text nil- that only begins with it.
C30_Witness ==
    /\ call.fn = "NeedsQuoting"
    /\ \/ input = <<"n", "i", "l">> /\ call.res.val = TRUE
       \/ input = <<"n", "i", "l", "-">> /\ call.res.val = FALSE


(***************************************************************************)
(* The builder (SpecBuilder).                                              *)
(***************************************************************************)
LabeledMethods == {"Enable", "Disable", "Boolean", "Labeled", "List", "Pairs"}

\* A labeled field was added, or tried, by one of the calls made so far.
AfterLabeled(bd) == \E i \in 1..Len(bd.log) : bd.log[i].fn \in LabeledMethods

\* The error of the call last made on bd1 from bd, "nil" when it has none.
ErrorOfCall(bd, bd1) ==
    LET c == bd1.log[Len(bd1.log)]
    IN  IF c.fn = "Ordered" /\ AfterLabeled(bd) THEN ErrOrderedFieldAfterLabeled
        ELSE IF c.fn = "Pairs" /\ c.n % 2 = 1 THEN ErrOddNumberOfPairs
        ELSE "nil"

\* bd1 has the error err recorded: it has an error, and it is err unless bd
\* had one already.
Records(bd, bd1, err) ==
    /\ Builder_Err(bd1) # "nil"
    /\ Builder_Err(bd) = "nil" => Builder_Err(bd1) = err

ErrorsOf(log) ==
    LET labeledBefore(i) == \E j \in 1..(i - 1) : log[j].fn \in LabeledMethods
        errorAt(i) ==
            IF log[i].fn = "Ordered" /\ labeledBefore(i) THEN ErrOrderedFieldAfterLabeled
            ELSE IF log[i].fn = "Pairs" /\ log[i].n % 2 = 1 THEN ErrOddNumberOfPairs
            ELSE "nil"
    IN  SelectSeq([i \in 1..Len(log) |-> errorAt(i)], LAMBDA e : e # "nil")

\* C32: after any sequence of builder calls, Err returns the last error that
\* occurred, if any: when several calls fail in a row, the error reported is
\* that of the most recent failing call.
C32_ErrIsLastError ==
    LET es == ErrorsOf(builder.log)
    IN  Builder_Err(builder) = IF es = <<>> THEN "nil" ELSE es[Len(es)]

\* What Err returns instead: the error of the first failing call.
C32_ErrIsFirstError ==
    LET es == ErrorsOf(builder.log)
    IN  Builder_Err(builder) = IF es = <<>> THEN "nil" ELSE es[1]

\* Two calls failed with different errors.
C32_TwoErrors ==
    /\ Len(ErrorsOf(builder.log)) = 2
    /\ ErrorsOf(builder.log)[1] # ErrorsOf(builder.log)[2]


(***************************************************************************)
(* Termination (SpecLive).                                                 *)
(***************************************************************************)
\* C33: for every finite input and a consumer that keeps pulling, the scanner
\* produces its terminal token after finitely many steps and the parser
\* finishes after finitely many events: no scanner state repeats forever
\* without consuming a code point, and no parser loop repeats without
\* consuming a token.
C33_ScanAndParseEnd ==
    /\ <>(/\ l.returned
          /\ l.yielded # <<>>
          /\ l.yielded[Len(l.yielded)].Typ \in TerminalTokens)
    /\ <>Finished

\* The scan and the parse of a list of three elements, both ended.
C33_Witness ==
    /\ l.returned
    /\ Finished
    /\ input = <<"a", "=", "1", ";", "1", ";", "1">>
    /\ Len(p.events) = 8
    /\ ~HasError(p.events)


\* yield has returned false: the consumer stops on its stopAfter-th item.
Refused(stopAfter, delivered) == stopAfter > 0 /\ Len(delivered) >= stopAfter

\* C34: once the consumer's yield has returned false, the scanner delivers
\* no further token and the parser no further event: from then on no step
\* of either changes what has been delivered.
C34_NoYieldAfterStop ==
    [][/\ Refused(l.stopAfter, l.yielded) => l'.yielded = l.yielded
       /\ Refused(p.stopAfter, p.events) => p'.events = p.events]_vars

\* The consumer stopped the scan on the third token, ListSeparator, with
\* input left, and the parse on the third event, ListStart, with the list's
\* values and both closing brackets undelivered.
C34_Witness ==
    /\ input = <<"a", "=", "1", ";", "1", ";", "1">>
    /\ l.stopAfter = 3
    /\ l.returned
    /\ Len(l.yielded) = 3
    /\ l.pos.Offset < ByteLen(input)
    /\ Finished
    /\ Len(p.events) = 3
    /\ p.events[3].kind = "ListStart"


\* The events that open a container, and those that close one.
Starts == {"ListStart", "MapStart"}
Ends == {"ListEnd", "MapEnd"}

\* C35: in every event stream at most two containers are open at any point:
\* a ListStart or MapStart comes with at most one container open, the
\* top-level one, so a top-level container is opened only when none is open,
\* and what comes inside a nested list or map is a FieldValue, a MapKey, the
\* closing event or an Error, never another ListStart or MapStart.
C35_DepthAtMostTwo ==
    \A i \in 1..Len(p.events) :
        /\ Depth(p.events, i) \in 0..2
        /\ Depth(p.events, i + 1) \in 0..2
        /\ p.events[i].kind \in Starts => Depth(p.events, i) <= 1
        /\ Depth(p.events, i) = 2 =>
               p.events[i].kind \in {"FieldValue", "MapKey", "Error"} \cup Ends

\* A finished parse in which the ordered list was closed before the labeled
\* map was opened, and a nested list with two values was open inside the map.
C35_Witness ==
    /\ Finished
    /\ ~HasError(p.events)
    /\ \E i \in 1..Len(p.events) :
           /\ p.events[i].kind = "ListEnd"
           /\ i < Len(p.events)
           /\ p.events[i + 1].kind = "MapStart"
           /\ Depth(p.events, i + 1) = 0
    /\ \E i \in 1..Len(p.events) :
           /\ Depth(p.events, i) = 2
           /\ p.events[i].kind = "FieldValue"
           /\ p.events[i - 1].kind = "FieldValue"


\* The container that is innermost open before the i-th event of es.
Innermost(es, i) ==
    LET open == OpenAfter(SubSeq(es, 1, i - 1), <<>>)
    IN  IF open = <<>> THEN "none" ELSE open[Len(open)]

\* C36: in the event stream of a parse that ended without an Error event,
\* every MapKey comes with a map innermost open and is followed at once by
\* its value: a FieldValue or, for a key of the top-level map only, a
\* ListStart or MapStart; and every FieldValue, ListStart or MapStart that
\* comes with a map innermost open follows a MapKey at once.  So no two
\* MapKeys are adjacent, no key has two values, no value of a map lacks its
\* key, and no MapKey comes directly inside a list.
C36_KeyThenOneValue ==
    (Finished /\ ~HasError(p.events)) =>
        \A i \in 1..Len(p.events) :
            /\ p.events[i].kind = "MapKey" =>
                   /\ Innermost(p.events, i) = "MapStart"
                   /\ i < Len(p.events)
                   /\ \/ p.events[i + 1].kind = "FieldValue"
                      \/ /\ p.events[i + 1].kind \in Starts
                         /\ Depth(p.events, i) = 1
            /\ (/\ p.events[i].kind \in {"FieldValue"} \cup Starts
                /\ Innermost(p.events, i) = "MapStart") =>
                   /\ i > 1
                   /\ p.events[i - 1].kind = "MapKey"

\* A finished error-free parse with a key whose value is a map of two
\* entries, the second one written with a boolean prefix.
C36_Witness ==
    /\ Finished
    /\ ~HasError(p.events)
    /\ Len(p.events) = 9
    /\ p.events[2].kind = "MapKey"
    /\ p.events[3].kind = "MapStart"
    /\ p.events[4].kind = "MapKey"
    /\ p.events[5].kind = "FieldValue"
    /\ p.events[6].kind = "MapKey"
    /\ p.events[7].kind = "FieldValue"
    /\ p.events[7].value = BooleanValue(<<"t", "r", "u", "e">>)
    /\ p.events[8].kind = "MapEnd"


\* The tokens of the input end with a field: the token before EOF is there
\* and is not a FieldSeparator.
EndsWithField(T) ==
    /\ Len(T) >= 2
    /\ T[Len(T)].Typ = TokenEOF
    /\ T[Len(T) - 1].Typ # TokenFieldSeparator

\* C37: when the parse of an input that ends with a field has ended without
\* an Error event, the parse of that input followed by one comma yields the
\* same event stream.
C37_TrailingCommaSameEvents ==
    (Finished /\ ~HasError(p.events) /\ EndsWithField(Tokens(p))) =>
        Parse(input \o <<",">>, p.config.AllowOrdered, 0) = p.events


\* C38: every Number token the scanner has yielded holds at least one digit.
C38_NumberHasDigit ==
    \A i \in 1..Len(l.yielded) :
        l.yielded[i].Typ = TokenNumber =>
            \E k \in 1..Len(l.yielded[i].Val) : isDigit(l.yielded[i].Val[k])


\* C39: every String token the scanner has yielded has a raw text of at
\* least the two quote characters, and IsZero is false for every String
\* value in an event the parser has emitted.
C39_StringNeverZero ==
    /\ \A i \in 1..Len(l.yielded) :
           l.yielded[i].Typ = TokenString => ByteLen(l.yielded[i].Val) >= 2
    /\ \A i \in 1..Len(p.events) :
           p.events[i].value.Type = "String" => ~IsZero(p.events[i].value)

\* The parse of '' has ended: its one value is the String with raw text ''.
C39_Witness ==
    /\ Finished
    /\ input = <<"'", "'">>
    /\ Len(p.events) = 3
    /\ p.events[2].kind = "FieldValue"
    /\ p.events[2].value = Value("String", <<"'", "'">>)
    /\ ~IsZero(p.events[2].value)

=============================================================================
